---------------------------- MODULE Spec2Model ----------------------------
(***************************************************************************)
(* A model of trunk-decoder's asynchronous job manager                     *)
(* (src/src/job_manager.cc, src/src/job_manager.h): the bounded job queue, *)
(* the worker threads, the job tracker and the statistics counters.        *)
(*                                                                         *)
(* Threads: the submitters (callers of queue_job), the worker threads      *)
(* (worker_thread_main) and one control thread (start / stop).  Every      *)
(* region the code runs under queue_mutex_ or tracker_mutex_ is one        *)
(* action; the code between two such regions is an action of its own.      *)
(* Jobs are numbered in the order in which they are pushed on the queue.   *)
(*                                                                         *)
(* Specifications:                                                         *)
(*   Spec       two submitters, two workers, start and stop; safety        *)
(*   FairSpec   one submitter, with weak fairness of the threads' steps    *)
(*   TimedSpec  one submitter, no stop, the clock running                  *)
(*   TrackerSpec  two submitters, colliding job ids, remove_completed_job  *)
(*   ArrivalSpec  two submitters, no stop, the clock running               *)
(*   HttpSpec   the handlers of POST /api/v1/decode                        *)
(*   DecodeSpec one P25Decoder decoding one capture file                   *)
(*   FileSpec   one submitter, captures and WAV files that may be missing  *)
(*   ReuseSpec  one P25Decoder decoding one capture after another          *)
(*   KeystreamSpec  one keystream generator: add_key, prepare, decrypt     *)
(*   JobFilesSpec  process_job and decode_to_audio: the files they leave   *)
(*   PluginSpec, PluginFairSpec  one input plugin: start, stop, get_data   *)
(***************************************************************************)
EXTENDS Integers, Sequences, FiniteSets, TLC

\* ------------------------------------------------------------------ bounds
\* Number of ProcessingJob objects queue_job may create in one behaviour.
MaxJobs == 3
\* Largest reading of std::chrono::system_clock::now() (0 is the epoch, the
\* value of a default-constructed time_point).
MaxClock == 3

\* Number of POST /api/v1/decode requests in one behaviour.
MaxRequests == 3
\* Number of units in a capture file, and of bytes a capture can have lost
\* at its end.
MaxUnits == 3
MaxCut == 3
\* Largest reading of the clock while two submitters race; two readings
\* after the epoch tell an earlier stamp from a later one.
MaxArrivalClock == 2
\* The longest capture, in units, given to a decoder that is used again.
MaxReuseUnits == 2
\* Number of decrypt_imbe_codeword calls counted after a prepare.
MaxDecrypts == 10
\* The datagrams and connections that reach an input plugin.
MaxPackets == 3
\* max_queue_size_ of an input plugin, as configured ("max_queue_size").
MaxPluginQueue == 2

\* ----------------------------------------------------------- configuration
\* JobManager(max_workers, max_queue_size, timeout_ms, verbose)
max_worker_threads_ == 2
max_queue_size_ == 2
job_timeout_ms_ == 1

Workers == 1..max_worker_threads_
Submitters == {"s1", "s2"}
Jobs == 1..MaxJobs
\* The values "job_<random>_<time>" can take: two, so that ids can collide.
JobIds == {"job_a", "job_b"}
\* A random_device that always gives the same number, within one second.
OneId == {"job_a"}
\* The empty string queue_job returns for a full queue.
EmptyId == ""
NoJob == 0
\* The P25Decoder objects that can be alive at once, and nullptr.
Decoders == 1..max_worker_threads_
NoDecoder == 0

\* The requests, each handled on a thread of the HTTP server, and the
\* status of a response that has not been set.
Requests == 1..MaxRequests
NoResponse == 0

\* No open_p25_file has been called.
NoCapture == [exists |-> FALSE, units |-> <<>>, bytes |-> <<>>]

QUEUED == "QUEUED"
PROCESSING == "PROCESSING"
COMPLETED == "COMPLETED"
FAILED == "FAILED"
\* A ProcessingJob that does not exist (not yet created, or destroyed).
NoStatus == "none"
Status == {QUEUED, PROCESSING, COMPLETED, FAILED}

VARIABLES
    job_queue,            \* std::queue<shared_ptr<ProcessingJob>> job_queue_
    job_tracker,          \* std::map<string, shared_ptr<ProcessingJob>>
    shutdown_requested,   \* std::atomic<bool> shutdown_requested_
    jobs_queued,          \* std::atomic<int> jobs_queued_
    jobs_completed,       \* std::atomic<int> jobs_completed_
    jobs_failed,          \* std::atomic<int> jobs_failed_
    active_workers,       \* std::atomic<int> active_workers_
    worker_threads,       \* std::vector<std::thread> worker_threads_
    thread_decoders,      \* std::map<thread::id, unique_ptr<P25Decoder>>
    parser_is_open,       \* decoder -> its parser_->file_.is_open()
    status,               \* job -> ProcessingJob::status
    error_message,        \* job -> ProcessingJob::error_message
    job_id,               \* job -> ProcessingJob::job_id
    received_time,        \* job -> ProcessingJob::received_time
    started_time,         \* job -> ProcessingJob::started_time
    completed_time,       \* job -> ProcessingJob::completed_time
    clock,                \* the system clock
    wpc,                  \* worker -> its place in worker_thread_main
    wjob,                 \* worker -> the local `job` of worker_thread_main
    wsuccess,             \* worker -> the local `success`
    wdecoder,             \* worker -> the local `decoder` of process_job
    spc,                  \* submitter -> its place in queue_job
    sjob,                 \* submitter -> the local `job` of queue_job, once pushed
    sid,                  \* submitter -> the local `job_id` of queue_job
    srecv,                \* submitter -> received_time of its job, before the push
    sresult,              \* submitter -> what its last queue_job returned
    cpc,                  \* the control thread's place in stop()
    cjoin,                \* the index of the join loop in stop()
    claim_order,          \* history: the jobs in the order of job_queue_.pop
    queued_at_stop,       \* history: the queue when stop() set the flag
    removed,              \* history: the jobs remove_completed_job erased
    files_failed,         \* history: the jobs run on a missing capture, or with
                          \* a WAV file that could not be created
    hpc,                  \* request -> its place in handle_decode_request
    hstatus,              \* request -> res.status of its response
    htemp,                \* request -> its temporary capture file exists
    hdecoded,             \* request -> decode_to_audio was run for it
    capture,              \* the bytes of the capture file
    cap_units,            \* the units the capture was written from
    fpos,                 \* P25FrameParser::file_: the read position
    feof,                 \* P25FrameParser::file_: eofbit
    ffail,                \* P25FrameParser::file_: failbit
    file_is_open,         \* P25FrameParser::file_.is_open()
    requested,            \* history: the file the last open_p25_file named
    frame,                \* the local `frame` of decode_to_audio
    frame_count,          \* the local `frame_count` of decode_to_audio
    metadata,             \* P25Decoder::metadata_
    audio_buffer,         \* P25Decoder::audio_buffer_, as runs of samples
    d_keys,               \* P25DESDecrypt::d_keys: the key ids held
    current_mi,           \* P25Decoder::current_mi_
    wav,                  \* P25Decoder::audio_file_ and the WAV file written
    dpc,                  \* the decoder's place in open / decode_to_audio
    dresult,              \* what decode_to_audio returned
    yielded,              \* history: the frames read_frame returned true for
    contrib,              \* history: the samples of each voice frame
    gen,                  \* a keystream generator (P25DESDecrypt, P25AESDecrypt
                          \* or P25ADPDecrypt) called on its own: its class,
                          \* d_keys, d_position, d_keystream (by the key and
                          \* MI it is of), the codeword the last decrypt
                          \* left, and as history the last call and the
                          \* 11-byte codewords decrypted since the construction
                          \* or the prepare that succeeded (-1 after a
                          \* prepare that failed)
    pjob,                 \* the job one worker runs process_job on, with its
                          \* fields, its files on disk and its upload hook
    plugin                \* an input plugin: running_, data_queue_ and its
                          \* threads

jobVars == <<status, error_message, job_id, received_time, started_time,
             completed_time>>
statVars == <<jobs_queued, jobs_completed, jobs_failed, active_workers>>
workerVars == <<wpc, wjob, wsuccess, wdecoder>>
submitVars == <<spc, sjob, sid, srecv, sresult>>
ctlVars == <<cpc, cjoin, worker_threads, shutdown_requested>>
decoderVars == <<thread_decoders, parser_is_open>>
histVars == <<claim_order, queued_at_stop, removed, files_failed>>
managerVars == <<job_queue, job_tracker, jobVars, statVars, workerVars,
                 submitVars, ctlVars, histVars, clock, decoderVars>>
httpVars == <<hpc, hstatus, htemp, hdecoded>>
\* The variables no function of JobManager reads or writes.
streamVars == <<capture, cap_units, fpos, feof, ffail, file_is_open, requested>>
decVars == <<streamVars, frame, frame_count, metadata, audio_buffer, d_keys,
             current_mi, wav, dpc, dresult, yielded, contrib>>
serviceVars == <<httpVars, decVars, gen, pjob, plugin>>
vars == <<managerVars, serviceVars>>

\* ----------------------------------------------------------- P25FrameParser
\* p25_frame_parser.cc line 67: the DUIDs of the voice units.
LDU1 == 5
LDU2 == 10
\* Line 53: uint8_t header[5].
HeaderBytes == 5
\* Line 121: the size of a standard P25 LDU, in bytes.
LduBytes == 216
\* Line 191: ALG_UNENCRYPTED.
ALG_UNENCRYPTED == 128
\* p25_decoder.cc lines 169, 188 and 220: samples per IMBE codeword.
SAMPLES_PER_FRAME == 160
\* Line 201: the IMBE codewords of a voice unit.
CodewordsPerLdu == 9

\* The two header bytes read the other way round.
HeaderWordSwapped(hi, lo) == (lo * 256 + hi) % 65536

\* Lines 62-63: (header[1] << 8) | header[2], stored in a uint16_t.
HeaderWord(hi, lo) == (hi * 256 + lo) % 65536

\* Line 67: LDU1 or LDU2.
\* A test that takes only LDU1 for a voice frame.
IsLdu1(duid) == duid = LDU1

IsVoiceDuid(duid) == duid = LDU1 \/ duid = LDU2

\* A reader that takes whatever it got for the payload.
PayloadAccepted(got, length) == TRUE

\* Line 73: file_.gcount() != frame.length is the short read.
PayloadComplete(got, length) == got = length

\* Lines 126-131: bit p of the frame data, the most significant bit of a
\* byte first (bytes are numbered from 0 in the code, from 1 here).
FrameBit(data, p) == (data[(p \div 8) + 1] \div (2 ^ (7 - (p % 8)))) % 2

\* Lines 134-155: the positions of the link signalling bits of an LDU2.
imbe_ldu_ls_data_bits == <<
     410, 411, 412, 413, 414, 415, 416, 417, 418, 419, 420, 421,
     422, 423, 424, 425, 426, 427, 428, 429, 432, 433, 434, 435,
     436, 437, 438, 439, 440, 441, 442, 443, 444, 445, 446, 447,
     448, 449, 450, 451, 600, 601, 602, 603, 604, 605, 606, 607,
     608, 609, 610, 611, 612, 613, 614, 615, 616, 617, 618, 619,
     620, 621, 622, 623, 624, 625, 626, 627, 628, 629, 630, 631,
     632, 633, 634, 635, 636, 637, 638, 639, 788, 789, 792, 793,
     794, 795, 796, 797, 798, 799, 800, 801, 802, 803, 804, 805,
     806, 807, 808, 809, 810, 811, 812, 813, 814, 815, 816, 817,
     818, 819, 820, 821, 822, 823, 824, 825, 826, 827, 828, 829,
     978, 979, 980, 981, 982, 983, 984, 985, 986, 987, 988, 989,
     990, 991, 992, 993, 994, 995, 996, 997, 998, 999, 1000, 1001,
     1002, 1003, 1004, 1005, 1008, 1009, 1010, 1011, 1012, 1013, 1014, 1015,
     1016, 1017, 1018, 1019, 1168, 1169, 1170, 1171, 1172, 1173, 1174, 1175,
     1176, 1177, 1178, 1179, 1180, 1181, 1182, 1183, 1184, 1185, 1186, 1187,
     1188, 1189, 1190, 1191, 1192, 1193, 1194, 1195, 1196, 1197, 1198, 1199,
     1200, 1201, 1202, 1203, 1204, 1205, 1206, 1207, 1356, 1357, 1358, 1359,
     1360, 1361, 1362, 1363, 1364, 1365, 1368, 1369, 1370, 1371, 1372, 1373,
     1374, 1375, 1376, 1377, 1378, 1379, 1380, 1381, 1382, 1383, 1384, 1385,
     1386, 1387, 1388, 1389, 1390, 1391, 1392, 1393, 1394, 1395, 1396, 1397 >>

\* Lines 162-168: the i-th (from 0) 10-bit codeword; a bit whose position
\* lies beyond the data is skipped (no shift).
RECURSIVE LsCodeword(_, _, _, _)
LsCodeword(data, i, j, acc) ==
    IF j = 10 THEN acc
    ELSE LET k == 10 * i + j
             pos == imbe_ldu_ls_data_bits[k + 1]
         IN IF k < 240 /\ pos < Len(data) * 8
            THEN LsCodeword(data, i, j + 1, 2 * acc + FrameBit(data, pos))
            ELSE LsCodeword(data, i, j + 1, acc)

\* Lines 195-199: (high << 2) | (low & 0x03), returned as a uint8_t.
hamming_10_6_decode(high, low) == ((high * 4) % 256) + (low % 4)

\* Line 170: HB[39 + i], from codeword >> 4 (passed as a uint8_t) and
\* codeword & 0x0f.
HexBit(data, i) ==
    LET codeword == LsCodeword(data, i, 0, 0)
    IN hamming_10_6_decode((codeword \div 16) % 256, codeword % 16)

\* Line 185, with j = 39 + 12: (HB[j] << 2) + (HB[j+1] >> 4) as a uint8_t.
AlgorithmId(data) == (HexBit(data, 12) * 4 + HexBit(data, 13) \div 16) % 256

\* Line 188: ((HB[j+1] & 0x0f) << 12) + (HB[j+2] << 6) + HB[j+3] as a
\* uint16_t.
KeyId(data) ==
    ((HexBit(data, 13) % 16) * 4096 + HexBit(data, 14) * 64 + HexBit(data, 15))
        % 65536

\* P25Decoder::P25Decoder, line 55: std::fill(current_mi_, current_mi_ + 9, 0).
ZeroMi == [i \in 1..9 |-> 0]

\* Lines 173-182: the message indicator parse_encryption_fields computes
\* from HB[39..50], each byte stored as a uint8_t.
MessageIndicator(data) ==
    [i \in 1..9 |->
        LET j == 4 * ((i - 1) \div 3)
        IN CASE (i - 1) % 3 = 0 ->
                    (((HexBit(data, j) * 4) % 256) + (HexBit(data, j + 1) \div 16)) % 256
             [] (i - 1) % 3 = 1 ->
                    ((((HexBit(data, j + 1) % 16) * 16) % 256)
                        + (HexBit(data, j + 2) \div 4)) % 256
             [] OTHER ->
                    ((((HexBit(data, j + 2) % 4) * 64) % 256) + HexBit(data, j + 3)) % 256]

\* A flag that takes every algorithm id for an encrypting one.
IsEncryptedAlways(algorithm_id) == TRUE

\* Line 191: frame.is_encrypted = (frame.algorithm_id != 0x80).
IsEncrypted(algorithm_id) == algorithm_id # ALG_UNENCRYPTED

\* P25Frame::P25Frame (p25_frame_parser.h lines 25-27).
NewFrame ==
    [duid |-> 0, nac |-> 0, length |-> 0, data |-> <<>>,
     is_voice_frame |-> FALSE, is_encrypted |-> FALSE,
     algorithm_id |-> 0, key_id |-> 0]

\* P25FrameParser::parse_encryption_fields: nothing for a frame shorter
\* than an LDU; otherwise the algorithm id, the key id and the encrypted
\* flag (the message indicator is computed into a local and dropped).
parse_encryption_fields(f) ==
    IF Len(f.data) < LduBytes THEN f
    ELSE [f EXCEPT !.algorithm_id = AlgorithmId(f.data),
                   !.key_id = KeyId(f.data),
                   !.is_encrypted = IsEncrypted(AlgorithmId(f.data))]

\* std::ifstream::read of n bytes at position pos of the file `bytes`: the
\* bytes it delivers (gcount of them).
FileRead(bytes, pos, n) ==
    SubSeq(bytes, pos + 1, IF pos + n <= Len(bytes) THEN pos + n ELSE Len(bytes))

\* P25FrameParser::read_frame on the frame object f, for a file `bytes`
\* read up to `pos` with eof state `eof`: the value returned, the frame as
\* it is left, and the stream's new position and eof state.  A read that
\* delivers fewer bytes than asked for sets eofbit.
read_frame(f, bytes, pos, eof) ==
    IF eof THEN [ok |-> FALSE, frame |-> f, pos |-> pos, eof |-> eof]
    ELSE LET header == FileRead(bytes, pos, HeaderBytes) IN
    IF Len(header) # HeaderBytes
    THEN [ok |-> FALSE, frame |-> f, pos |-> pos + Len(header), eof |-> TRUE]
    ELSE LET length == HeaderWord(header[4], header[5])
             data == FileRead(bytes, pos + HeaderBytes, length)
             g == [f EXCEPT !.duid = header[1],
                            !.nac = HeaderWord(header[2], header[3]),
                            !.length = length,
                            !.is_voice_frame = IsVoiceDuid(header[1]),
                            !.data = data]
             end == pos + HeaderBytes + Len(data)
         IN IF ~PayloadComplete(Len(data), length)
            THEN [ok |-> FALSE, frame |-> g, pos |-> end, eof |-> TRUE]
            ELSE [ok |-> TRUE,
                  frame |-> IF g.duid = LDU2 THEN parse_encryption_fields(g)
                            ELSE g,
                  pos |-> end,
                  eof |-> Len(data) < length]

\* ---------------------------------------------------- P25Decoder: audio
\* CallMetadata::CallMetadata (p25_decoder.h): the fields decode_to_audio
\* writes.
NewMetadata ==
    [total_frames |-> 0, voice_frames |-> 0, nac |-> 0,
     has_encrypted_frames |-> FALSE]

\* Samples are kept as runs: n samples that all come from `of`, which is
\* Silence for zero samples and otherwise the codeword the vocoder was
\* given.
Silence == [vf |-> 0, cw |-> 0, xored |-> 0]

\* extract_imbe_from_p25_frame, lines 205-221: codeword cw of voice frame
\* vf goes from imbe_deinterleave to imbe_header_decode and the vocoder as
\* it is; no keystream generator is called on the way.
Codeword(vf, cw) == [vf |-> vf, cw |-> cw, xored |-> 0]

RECURSIVE SampleCount(_)
\* std::vector::size of a vector kept as runs.
SampleCount(rs) == IF rs = <<>> THEN 0 ELSE Head(rs).n + SampleCount(Tail(rs))

RECURSIVE TakeSamples(_, _)
\* The first n samples of the runs rs.
TakeSamples(rs, n) ==
    IF n = 0 \/ rs = <<>> THEN <<>>
    ELSE IF Head(rs).n <= n
         THEN <<Head(rs)>> \o TakeSamples(Tail(rs), n - Head(rs).n)
         ELSE <<[Head(rs) EXCEPT !.n = n]>>

\* std::vector::resize(n, 0): cut to the first n samples, or filled up to
\* n with zero samples.
Resize(rs, n) ==
    IF SampleCount(rs) >= n THEN TakeSamples(rs, n)
    ELSE Append(rs, [n |-> n - SampleCount(rs), of |-> Silence])

\* extract_imbe_from_p25_frame for voice frame number vf when the vocoder
\* throws at codeword `fault` (0: it never throws): the codewords before
\* the throw have pushed their 160 samples each; the result is true when
\* nothing was thrown.
extract_imbe_from_p25_frame(vf, fault) ==
    LET last == IF fault = 0 THEN CodewordsPerLdu ELSE fault - 1
    IN [ok |-> fault = 0,
        samples |-> [i \in 1..last |->
                        [n |-> SAMPLES_PER_FRAME, of |-> Codeword(vf, i)]]]

\* decode_voice_frame: the decoded samples, or, when the extraction failed,
\* audio_samples.resize(SAMPLES_PER_FRAME, 0) on what it left behind.
decode_voice_frame(f, vf, fault) ==
    IF ~f.is_voice_frame THEN [ok |-> FALSE, samples |-> <<>>]
    ELSE LET e == extract_imbe_from_p25_frame(vf, fault)
         IN IF e.ok THEN [ok |-> TRUE, samples |-> e.samples]
            ELSE [ok |-> TRUE, samples |-> Resize(e.samples, SAMPLES_PER_FRAME)]

\* ------------------------------------------------ keystream generators
\* p25_decoder.cc lines 52-54: the three generators a decoder creates.
GenClasses == {"DES", "AES", "ADP"}

\* uint8_t des_key[8] (p25_des_decrypt.cc line 32), uint8_t adp_key[5]
\* (p25_adp_decrypt.cc line 33); the AES-256 key is of 32 bytes.
DesKeyBytes == 8
AdpKeyBytes == 5
AesKeyBytes == 32
KeyBytes(c) ==
    CASE c = "DES" -> DesKeyBytes [] c = "ADP" -> AdpKeyBytes [] OTHER -> AesKeyBytes

\* The sizes of d_keystream (p25_des_decrypt.h, p25_adp_decrypt.h line 13).
DesKeystreamBytes == 224
AdpKeystreamBytes == 469
KeystreamBytes(c) == IF c = "DES" THEN DesKeystreamBytes ELSE AdpKeystreamBytes

\* No generator has been constructed.
NoGenerator == [class |-> "none"]

\* No job has been handed to process_job; the parser stream of the worker's
\* decoder is closed.
NoJobFiles == [pc |-> "none", is_open |-> FALSE]

\* No input plugin has been constructed.
NoPlugin ==
    [state |-> "none", kind |-> "none", running_ |-> FALSE,
     data_queue_ |-> <<>>, thread |-> "none", pending |-> "none",
     stop_pc |-> "idle", get_pc |-> "idle", got |-> "none",
     stop_called |-> FALSE, packets |-> 0]

\* The constructors: d_keystream filled with zeros.
ZeroKeystream == [key |-> <<>>, mi |-> <<>>]

\* No call has been made on the generator.
NoCall == [op |-> "none", ok |-> TRUE, keyid |-> 0, key |-> <<>>,
           position |-> 0, is_ldu2 |-> FALSE, size |-> 0, ub |-> "none"]

\* A codeword byte decrypt_imbe_codeword has left as it was.
NoXor == -1

\* prepare, p25_des_decrypt.cc lines 32-38 (p25_adp_decrypt.cc lines 33-39):
\* the n-byte key array, zero-filled, after des_key[n - size + i] =
\* stored_key[i] for i < n and i < size.  The writes whose index n - size + i
\* is below 0 fall outside the array and are not in the value.
PadKey(key, n) ==
    [idx \in 1..n |->
        LET i == idx - (n - Len(key))
        IN IF i >= 1 /\ i <= n /\ i <= Len(key) THEN key[i] ELSE 0]

\* The same loop writes outside the array: n - size + i is below 0 for i = 0
\* when the stored key is longer than the array.
WritesOutOfBounds(key, n) == Len(key) > n

\* The position that is not taken back to 0 after the ninth codeword.
NextPositionUnwrapped(position) == position + 1

\* p25_des_decrypt.cc line 60, p25_adp_decrypt.cc line 62:
\* d_position = (d_position + 1) % 9.
NextPosition(position) == (position + 1) % 9

\* The DES offset without the two bytes skipped before the ninth codeword.
des_offset_unskipped(position, is_ldu2) ==
    8 + (IF is_ldu2 THEN 101 ELSE 0) + position * 11 + 11

\* P25DESDecrypt::decrypt_imbe_codeword, lines 52-59.
des_offset(position, is_ldu2) ==
    8 + (IF is_ldu2 THEN 101 ELSE 0)
      + (position * 11) + 11 + (IF position < 8 THEN 0 ELSE 2)

\* P25ADPDecrypt::decrypt_imbe_codeword, lines 53-61.
adp_offset(position, is_ldu2) ==
    0 + (IF is_ldu2 THEN 101 ELSE 0)
      + (position * 11) + 267 + (IF position < 8 THEN 0 ELSE 2)

\* P25AESDecrypt::decrypt_imbe_codeword: the offset policy with a discard
\* of 16 bytes and an intra shift of 16.
aes_offset(position, is_ldu2) ==
    16 + (IF is_ldu2 THEN 101 ELSE 0)
       + (position * 11) + 16 + (IF position < 8 THEN 0 ELSE 2)

KeystreamOffset(c, position, is_ldu2) ==
    IF c = "DES" THEN des_offset(position, is_ldu2)
    ELSE adp_offset(position, is_ldu2)

\* A working key that takes mi[1..8], not mi[0..7].
adp_key_late_mi(key, mi) == key \o SubSeq(mi, 2, 9)

\* P25ADPDecrypt::generate_keystream, lines 79-86: adp_key[13], the five
\* key bytes and then mi[0..7].
adp_key(key, mi) == key \o SubSeq(mi, 1, 8)

\* The arrays S[256] and K[256] are sequences: the byte at index i of the
\* code is the element i + 1.
\* adp_swap, p25_adp_decrypt.h lines 17-21.
adp_swap(S, i, j) == [S EXCEPT ![i + 1] = S[j + 1], ![j + 1] = S[i + 1]]

\* generate_keystream, lines 97-101: the loop j = (j + S[i] + K[i]) & 0xFF;
\* adp_swap(S, i, j) for i from lo to hi - 1, on st = [S, j].  The loop
\* over lo..hi-1 is the loop over its first half and then over its second;
\* the test of the byte j makes TLC finish the first before the second.
RECURSIVE adp_ksa(_, _, _, _)
adp_ksa(st, K, lo, hi) ==
    IF hi = lo + 1
    THEN LET j == (st.j + st.S[lo + 1] + K[lo + 1]) % 256
         IN [S |-> adp_swap(st.S, lo, j), j |-> j]
    ELSE LET half == adp_ksa(st, K, lo, (lo + hi) \div 2)
         IN IF half.j < 256 THEN adp_ksa(half, K, (lo + hi) \div 2, hi)
            ELSE half

\* Lines 104-110: the loop for k from lo to hi - 1, on st = [S, i, j, out];
\* `out` is d_keystream[0..k-1].
RECURSIVE adp_prga(_, _, _)
adp_prga(st, lo, hi) ==
    IF hi = lo + 1
    THEN LET i == (st.i + 1) % 256
             j == (st.j + st.S[i + 1]) % 256
             S == adp_swap(st.S, i, j)
         IN [S |-> S, i |-> i, j |-> j,
             out |-> Append(st.out, S[((S[i + 1] + S[j + 1]) % 256) + 1])]
    ELSE LET half == adp_prga(st, lo, (lo + hi) \div 2)
         IN IF half.j < 256 THEN adp_prga(half, (lo + hi) \div 2, hi)
            ELSE half

\* P25ADPDecrypt::generate_keystream(key, mi), lines 74-114: the 469 bytes
\* of d_keystream.
generate_keystream(key, mi) ==
    LET K == SubSeq([n \in 1..256 |-> adp_key(key, mi)[((n - 1) % 13) + 1]], 1, 256)
        S == SubSeq([n \in 1..256 |-> n - 1], 1, 256)
        st == adp_ksa([S |-> S, j |-> 0], K, 0, 256)
    IN adp_prga([S |-> st.S, i |-> 0, j |-> 0, out |-> <<>>],
                0, AdpKeystreamBytes).out

\* P25DESDecrypt::prepare and P25ADPDecrypt::prepare(keyid, mi) on a
\* generator with the keys `keys` and a key array of n bytes: false and
\* nothing changed when the key is not held; otherwise d_position = 0 and
\* the keystream generate_keystream makes of the padded key and the MI.
prepare(n, keys, keyid, mi, position, keystream) ==
    IF keyid \notin DOMAIN keys
    THEN [ok |-> FALSE, position |-> position, keystream |-> keystream]
    ELSE [ok |-> TRUE, position |-> 0,
          keystream |-> [key |-> PadKey(keys[keyid], n), mi |-> mi]]

\* P25AESDecrypt::prepare: Ok with the keystream of the key and the MI, or
\* KeyNotFound; the codeword position is reset to 0.
aes_prepare(keys, keyid, mi, keystream) ==
    IF keyid \notin DOMAIN keys
    THEN [ok |-> FALSE, position |-> 0, keystream |-> keystream]
    ELSE [ok |-> TRUE, position |-> 0,
          keystream |-> [key |-> keys[keyid], mi |-> mi]]

\* P25DESDecrypt and P25ADPDecrypt::decrypt_imbe_codeword on a codeword of
\* `size` bytes, with the offset computed and a keystream of `length`
\* bytes: false and nothing changed below 11 bytes; otherwise the position
\* advances and byte j < 11 is XORed with d_keystream[offset + j] when
\* offset + j is inside the keystream.  The codeword is given by the
\* keystream index each of its bytes was XORed with.
decrypt_imbe_codeword(offset, length, position, size) ==
    IF size < 11
    THEN [ok |-> FALSE, position |-> position, codeword |-> [j \in 1..size |-> NoXor]]
    ELSE [ok |-> TRUE, position |-> NextPosition(position),
          codeword |-> [j \in 1..size |->
                            IF j - 1 < 11 /\ offset + (j - 1) < length
                            THEN offset + (j - 1) ELSE NoXor]]

\* P25AESDecrypt::decrypt_imbe_codeword: the first 11 bytes are XORed with
\* the keystream at the offset, later bytes are left, and the position
\* advances modulo 9.
aes_decrypt_codeword(position, is_ldu2, size) ==
    [ok |-> TRUE, position |-> (position + 1) % 9,
     codeword |-> [j \in 1..size |->
                    IF j - 1 < 11 THEN aes_offset(position, is_ldu2) + (j - 1)
                    ELSE NoXor]]

\* ------------------------------------------------------- the WAV file
\* sizeof(wav_header), p25_decoder.cc lines 104-118 and 128.
WavHeaderBytes == 44
\* sizeof(int16_t), line 142.
BytesPerSample == 2

\* audio_file_ is not open and no WAV file has been written.
NoWav == [is_open |-> FALSE, size |-> 0, file_size |-> 0, data_size |-> 0]

\* setup_wav_output and write_wav_header, lines 82-121: the file holds the
\* 44 bytes of the placeholder header, file_size = 36 + 0, data_size = 0.
write_wav_header ==
    [is_open |-> TRUE, size |-> WavHeaderBytes, file_size |-> 36, data_size |-> 0]

\* write_audio_samples, lines 139-144: samples.size() * sizeof(int16_t)
\* bytes at the end of the file.
write_audio_samples(w, samples) ==
    IF w.is_open /\ samples # <<>>
    THEN [w EXCEPT !.size = @ + SampleCount(samples) * BytesPerSample]
    ELSE w

\* The size that stands for the header as well.
WavDataSizeWithHeader(pos) == pos

\* finalize_wav_file, line 128: static_cast<uint32_t>(current_pos) - 44.
\* The position is at least 44 once the header is written and the files
\* of the model are far shorter than 2^32 bytes, so the uint32_t
\* arithmetic does not wrap.
WavDataSize(pos) == pos - WavHeaderBytes

\* close_audio_output, lines 146-151, and finalize_wav_file, lines 123-137:
\* the two size fields of the header are rewritten from tellp() and the
\* file is closed.
close_audio_output(w) ==
    IF ~w.is_open THEN w
    ELSE [w EXCEPT !.file_size = 36 + WavDataSize(w.size),
                   !.data_size = WavDataSize(w.size),
                   !.is_open = FALSE]

\* ------------------------------------------------------------ the captures
\* A capture is written unit by unit: the DUID, the NAC and the payload
\* length as big-endian 16-bit numbers, then the payload.
Nac == 659
\* The NAC of units of another system.
OtherNac == 660

\* The payload of an LDU, zero but for the bytes (numbered from 1) in S.
LduPayload(S) ==
    [i \in 1..LduBytes |->
        IF \E e \in S : e[1] = i THEN (CHOOSE e \in S : e[1] = i)[2] ELSE 0]

\* An LDU2 whose link signalling bits read algorithm id 0x80, key id 0.
ClearLdu2 == LduPayload({<<123, 8>>})
\* An LDU2 whose link signalling bits read algorithm id 0x81 (DES-OFB),
\* key id 1 and a message indicator that is not zero.
DesLdu2 == LduPayload({<<52, 1>>, <<123, 8>>, <<124, 1>>, <<128, 16>>})

\* The units a capture is made of: a header unit with a two-byte payload,
\* an LDU1, a clear LDU2 and a DES LDU2.
CaptureUnits ==
    { [duid |-> 0, nac |-> Nac, payload |-> <<1, 2>>],
      [duid |-> LDU1, nac |-> OtherNac, payload |-> LduPayload({})],
      [duid |-> LDU2, nac |-> Nac, payload |-> ClearLdu2],
      [duid |-> LDU2, nac |-> Nac, payload |-> DesLdu2] }

\* The bytes of one unit.
EncodeUnit(u) ==
    <<u.duid, u.nac \div 256, u.nac % 256,
      Len(u.payload) \div 256, Len(u.payload) % 256>> \o u.payload

RECURSIVE EncodeUnits(_)
EncodeUnits(us) ==
    IF us = <<>> THEN <<>> ELSE EncodeUnit(Head(us)) \o EncodeUnits(Tail(us))

\* The captures of at most MaxUnits units.
CaptureSeqs == UNION {[1..n -> CaptureUnits] : n \in 0..MaxUnits}

\* The key ids of the keyring.
KeyIds == {1}

Range(s) == {s[i] : i \in 1..Len(s)}

\* The jobs the queue has admitted so far.  Jobs are numbered in the order
\* of job_queue_.push: job k is the k-th job pushed.
Admitted == {j \in Jobs : status[j] # NoStatus}

\* JobManager::JobManager: an empty queue and tracker, zeroed counters, no
\* worker threads.
Init ==
    /\ job_queue = <<>>
    /\ job_tracker = [i \in JobIds |-> NoJob]
    /\ shutdown_requested = FALSE
    /\ jobs_queued = 0
    /\ jobs_completed = 0
    /\ jobs_failed = 0
    /\ active_workers = 0
    /\ worker_threads = {}
    /\ thread_decoders = [k \in Workers |-> NoDecoder]
    /\ parser_is_open = [d \in Decoders |-> FALSE]
    /\ status = [j \in Jobs |-> NoStatus]
    /\ error_message = [j \in Jobs |-> ""]
    /\ job_id = [j \in Jobs |-> EmptyId]
    /\ received_time = [j \in Jobs |-> 0]
    /\ started_time = [j \in Jobs |-> 0]
    /\ completed_time = [j \in Jobs |-> 0]
    /\ clock = 1
    /\ wpc = [w \in Workers |-> "none"]
    /\ wjob = [w \in Workers |-> NoJob]
    /\ wsuccess = [w \in Workers |-> FALSE]
    /\ wdecoder = [w \in Workers |-> NoDecoder]
    /\ spc = [s \in Submitters |-> "idle"]
    /\ sjob = [s \in Submitters |-> NoJob]
    /\ sid = [s \in Submitters |-> EmptyId]
    /\ srecv = [s \in Submitters |-> 0]
    /\ sresult = [s \in Submitters |-> "none"]
    /\ cpc = "idle"
    /\ cjoin = 0
    /\ claim_order = <<>>
    /\ queued_at_stop = {}
    /\ removed = {}
    /\ files_failed = {}
    /\ hpc = [r \in Requests |-> "none"]
    /\ hstatus = [r \in Requests |-> NoResponse]
    /\ htemp = [r \in Requests |-> FALSE]
    /\ hdecoded = [r \in Requests |-> FALSE]
    /\ capture = <<>>
    /\ cap_units = <<>>
    /\ fpos = 0
    /\ feof = FALSE
    /\ ffail = FALSE
    /\ file_is_open = FALSE
    /\ requested = NoCapture
    /\ frame = NewFrame
    /\ frame_count = 0
    /\ metadata = NewMetadata
    /\ audio_buffer = <<>>
    /\ d_keys = {}
    /\ current_mi = ZeroMi
    /\ wav = NoWav
    /\ dpc = "idle"
    /\ dresult = FALSE
    /\ yielded = <<>>
    /\ contrib = <<>>
    /\ gen = NoGenerator
    /\ pjob = NoJobFiles
    /\ plugin = NoPlugin

\* The system clock advances.
Tick ==
    /\ clock < MaxClock
    /\ clock' = clock + 1
    /\ UNCHANGED <<job_queue, job_tracker, jobVars, statVars, workerVars,
                   submitVars, ctlVars, histVars, decoderVars,
                   serviceVars>>

\* ---------------------------------------------------------------- start()
\* JobManager::start: returns at once when the workers exist; otherwise
\* clears the shutdown flag and starts max_worker_threads_ workers.
Start ==
    /\ cpc = "idle"
    /\ IF worker_threads # {}
       THEN UNCHANGED <<worker_threads, shutdown_requested, wpc, queued_at_stop>>
       ELSE /\ shutdown_requested' = FALSE
            /\ worker_threads' = Workers
            /\ wpc' = [w \in Workers |-> "loop"]
            /\ queued_at_stop' = {}
    /\ UNCHANGED <<job_queue, job_tracker, jobVars, statVars, wjob, wsuccess,
                   wdecoder, submitVars, cpc, cjoin, claim_order, removed, files_failed,
                   clock, decoderVars,
                   serviceVars>>


\* ----------------------------------------------------------------- stop()
\* A stop() that forgets to broadcast.
NotifyAllMissing(pcs) == pcs

\* queue_condition_.notify_all(): every worker blocked in wait() wakes up
\* and goes back to take the lock and test the predicate.
NotifyAll(pcs) == [w \in Workers |-> IF pcs[w] = "blocked" THEN "lock" ELSE pcs[w]]

\* A queue_job that forgets to notify.
NotifyOneMissing(pcs) == {pcs}

\* queue_condition_.notify_one(): one of the blocked workers, if any.
NotifyOne(pcs) ==
    IF \E w \in Workers : pcs[w] = "blocked"
    THEN {[pcs EXCEPT ![w] = "lock"] : w \in {x \in Workers : pcs[x] = "blocked"}}
    ELSE {pcs}

\* JobManager::stop, lines 43-51: returns at once when there are no
\* workers; otherwise sets shutdown_requested_ under queue_mutex_.
StopSignal ==
    /\ cpc = "idle"
    /\ IF worker_threads = {}
       THEN UNCHANGED <<shutdown_requested, cpc, queued_at_stop>>
       ELSE /\ shutdown_requested' = TRUE
            /\ queued_at_stop' = Range(job_queue)
            /\ cpc' = "notify"
    /\ UNCHANGED <<job_queue, job_tracker, jobVars, statVars, workerVars,
                   submitVars, cjoin, worker_threads, claim_order, removed, files_failed,
                   clock, decoderVars,
                   serviceVars>>

\* JobManager::stop, line 52.
StopNotify ==
    /\ cpc = "notify"
    /\ wpc' = NotifyAll(wpc)
    /\ cpc' = "join"
    /\ cjoin' = 1
    /\ UNCHANGED <<job_queue, job_tracker, jobVars, statVars, wjob, wsuccess,
                   wdecoder, submitVars, worker_threads, shutdown_requested,
                   histVars,
                   clock, decoderVars,
                   serviceVars>>

\* JobManager::stop, lines 55-59: worker.join() returns once that worker's
\* worker_thread_main has returned.
StopJoin ==
    /\ cpc = "join"
    /\ cjoin \in Workers
    /\ wpc[cjoin] = "exited"
    /\ cjoin' = cjoin + 1
    /\ UNCHANGED <<job_queue, job_tracker, jobVars, statVars, workerVars,
                   submitVars, cpc, worker_threads, shutdown_requested,
                   histVars, clock, decoderVars,
                   serviceVars>>

\* JobManager::stop, lines 60-71: worker_threads_.clear(), then
\* thread_decoders_.clear() under decoder_mutex_, and return.
StopClear ==
    /\ cpc = "join"
    /\ cjoin > max_worker_threads_
    /\ worker_threads' = {}
    /\ thread_decoders' = [k \in Workers |-> NoDecoder]
    /\ parser_is_open' = [d \in Decoders |-> FALSE]
    /\ wpc' = [w \in Workers |-> "none"]
    /\ cpc' = "idle"
    /\ cjoin' = 0
    /\ UNCHANGED <<job_queue, job_tracker, jobVars, statVars, wjob, wsuccess,
                   wdecoder, submitVars, shutdown_requested, histVars, clock, serviceVars>>

\* stop() has returned and start() has not been called since.
Stopped == cpc = "idle" /\ worker_threads = {} /\ shutdown_requested

\* ------------------------------------------------------------- queue_job()
\* A capacity test that lets one job too many in.
QueueFullOffByOne == Len(job_queue) > max_queue_size_

\* queue_job, line 106: job_queue_.size() >= max_queue_size_.
QueueFull == Len(job_queue) >= max_queue_size_

\* queue_job, lines 85-101: the job id is drawn, the ProcessingJob is
\* created (its constructor reads the clock into received_time) and filled.
QueueJobCreate(s, ids) ==
    /\ spc[s] = "idle"
    /\ Cardinality(Admitted) + Cardinality({x \in Submitters : spc[x] = "created"})
         < MaxJobs
    /\ \E id \in ids : sid' = [sid EXCEPT ![s] = id]
    /\ srecv' = [srecv EXCEPT ![s] = clock]
    /\ spc' = [spc EXCEPT ![s] = "created"]
    /\ sresult' = [sresult EXCEPT ![s] = "none"]
    /\ UNCHANGED <<job_queue, job_tracker, jobVars, statVars, workerVars, sjob,
                   ctlVars, histVars, clock, decoderVars,
                   serviceVars>>

\* queue_job, lines 103-116, under queue_mutex_: a full queue rejects the
\* job (return "": the ProcessingJob is destroyed with its last reference);
\* otherwise the job is pushed and jobs_queued_ incremented.
QueueJobPush(s) ==
    /\ spc[s] = "created"
    /\ IF QueueFull
       THEN /\ spc' = [spc EXCEPT ![s] = "idle"]
            /\ sresult' = [sresult EXCEPT ![s] = EmptyId]
            /\ sid' = [sid EXCEPT ![s] = EmptyId]
            /\ UNCHANGED <<job_queue, jobs_queued, sjob, status, job_id,
                           received_time>>
       ELSE LET j == Cardinality(Admitted) + 1 IN
            /\ status' = [status EXCEPT ![j] = QUEUED]
            /\ job_id' = [job_id EXCEPT ![j] = sid[s]]
            /\ received_time' = [received_time EXCEPT ![j] = srecv[s]]
            /\ job_queue' = Append(job_queue, j)
            /\ jobs_queued' = jobs_queued + 1
            /\ sjob' = [sjob EXCEPT ![s] = j]
            /\ spc' = [spc EXCEPT ![s] = "pushed"]
            /\ UNCHANGED <<sresult, sid>>
    /\ srecv' = [srecv EXCEPT ![s] = 0]
    /\ UNCHANGED <<job_tracker, error_message, started_time, completed_time,
                   jobs_completed, jobs_failed, active_workers, workerVars,
                   ctlVars, histVars, clock, decoderVars,
                   serviceVars>>

\* queue_job, lines 118-122, under tracker_mutex_: job_tracker_[job_id] = job.
QueueJobTrack(s) ==
    /\ spc[s] = "pushed"
    /\ job_tracker' = [job_tracker EXCEPT ![sid[s]] = sjob[s]]
    /\ spc' = [spc EXCEPT ![s] = "tracked"]
    /\ UNCHANGED <<job_queue, jobVars, statVars, workerVars, sjob, sid, srecv,
                   sresult, ctlVars, histVars, clock, decoderVars,
                   serviceVars>>

\* queue_job, lines 124-131: notify_one and return the job id.
QueueJobNotify(s) ==
    /\ spc[s] = "tracked"
    /\ wpc' \in NotifyOne(wpc)
    /\ sresult' = [sresult EXCEPT ![s] = sid[s]]
    /\ sjob' = [sjob EXCEPT ![s] = NoJob]
    /\ sid' = [sid EXCEPT ![s] = EmptyId]
    /\ spc' = [spc EXCEPT ![s] = "idle"]
    /\ UNCHANGED <<job_queue, job_tracker, jobVars, statVars, wjob, wsuccess,
                   wdecoder, srecv, ctlVars, histVars, clock, decoderVars,
                   serviceVars>>

\* JobManager::remove_completed_job: erases the id from the tracker,
\* whatever the job's status.
RemoveCompletedJob(id) ==
    /\ job_tracker[id] # NoJob
    /\ job_tracker' = [job_tracker EXCEPT ![id] = NoJob]
    /\ removed' = removed \cup {job_tracker[id]}
    /\ UNCHANGED <<job_queue, jobVars, statVars, workerVars, submitVars,
                   ctlVars, claim_order, queued_at_stop, files_failed, clock,
                   decoderVars, serviceVars>>

\* JobManager::get_job_status: the tracked job, or NoJob (nullptr).
get_job_status(id) == job_tracker[id]

\* JobManager::reset_stats.
ResetStats ==
    /\ jobs_queued' = 0
    /\ jobs_completed' = 0
    /\ jobs_failed' = 0
    /\ UNCHANGED <<job_queue, job_tracker, jobVars, active_workers,
                   workerVars, submitVars, ctlVars, histVars, clock, decoderVars,
                   serviceVars>>

\* JobManager::get_stats: the counters and the queue size.
get_stats ==
    [queued |-> jobs_queued, completed |-> jobs_completed,
     failed |-> jobs_failed, active_workers |-> active_workers,
     total_processed |-> jobs_completed + jobs_failed,
     queue_size |-> Len(job_queue)]


\* ------------------------------------------------------ worker_thread_main
\* A worker that takes the newest job instead of the oldest.
QueueBack(q) == q[Len(q)]

\* Line 190: job_queue_.front().
QueueFront(q) == Head(q)

\* A worker that forgets to mark the job it claims.
StatusLeftQueued == QUEUED

\* Line 192: the status a claimed job is given.
StatusOnClaim == PROCESSING

\* Line 175: the test of the while loop, an atomic read outside the lock.
WorkerLoop(w) ==
    /\ wpc[w] = "loop"
    /\ wpc' = [wpc EXCEPT ![w] = IF shutdown_requested THEN "exited" ELSE "lock"]
    /\ UNCHANGED <<job_queue, job_tracker, jobVars, statVars, wjob, wsuccess,
                   wdecoder, submitVars, ctlVars, histVars, clock, decoderVars,
                   serviceVars>>

\* Lines 179-195, under queue_mutex_: wait(lock, pred) blocks when neither
\* shutdown is requested nor a job is queued; with the predicate true the
\* worker leaves on (shutdown and empty queue), and otherwise pops the
\* front job, makes it PROCESSING and stamps started_time.
WorkerDequeue(w) ==
    /\ wpc[w] = "lock"
    /\ IF ~(shutdown_requested \/ job_queue # <<>>)
       THEN /\ wpc' = [wpc EXCEPT ![w] = "blocked"]
            /\ UNCHANGED <<job_queue, wjob, status, started_time, claim_order>>
       ELSE IF shutdown_requested /\ job_queue = <<>>
       THEN /\ wpc' = [wpc EXCEPT ![w] = "exited"]
            /\ UNCHANGED <<job_queue, wjob, status, started_time, claim_order>>
       ELSE /\ wjob' = [wjob EXCEPT ![w] = QueueFront(job_queue)]
            /\ job_queue' = Tail(job_queue)
            /\ status' = [status EXCEPT ![QueueFront(job_queue)] = StatusOnClaim]
            /\ started_time' = [started_time EXCEPT ![QueueFront(job_queue)] = clock]
            /\ claim_order' = Append(claim_order, QueueFront(job_queue))
            /\ wpc' = [wpc EXCEPT ![w] = "claimed"]
    /\ UNCHANGED <<job_tracker, error_message, job_id, received_time,
                   completed_time, statVars, wsuccess, wdecoder, submitVars,
                   ctlVars, queued_at_stop, removed, files_failed, clock, decoderVars,
                   serviceVars>>

\* A condition variable may wake a waiter spuriously; the waiter then takes
\* the lock and tests the predicate again.
SpuriousWakeup(w) ==
    /\ wpc[w] = "blocked"
    /\ wpc' = [wpc EXCEPT ![w] = "lock"]
    /\ UNCHANGED <<job_queue, job_tracker, jobVars, statVars, wjob, wsuccess,
                   wdecoder, submitVars, ctlVars, histVars, clock, decoderVars,
                   serviceVars>>

\* Lines 197-198: active_workers_++.
WorkerActivate(w) ==
    /\ wpc[w] = "claimed"
    /\ active_workers' = active_workers + 1
    /\ wpc' = [wpc EXCEPT ![w] = "decoder"]
    /\ UNCHANGED <<job_queue, job_tracker, jobVars, jobs_queued,
                   jobs_completed, jobs_failed, wjob, wsuccess, wdecoder,
                   submitVars, ctlVars, histVars, clock, decoderVars,
                   serviceVars>>

\* What the files and the decoder give one call of process_job: the
\* capture file exists, the WAV file can be created (setup_wav_output), it
\* is still there at line 283, and decode_to_audio throws.
ProcessOutcomes ==
    [exists : BOOLEAN, wav_created : BOOLEAN, wav_kept : BOOLEAN,
     throws : BOOLEAN]

\* The capture and the WAV file are as they should be; the decode returns
\* or throws.
BasicOutcomes ==
    [exists : {TRUE}, wav_created : {TRUE}, wav_kept : {TRUE},
     throws : BOOLEAN]

\* The capture may be missing and the WAV file may not be creatable;
\* nothing else goes wrong.
FileOutcomes ==
    [exists : BOOLEAN, wav_created : BOOLEAN, wav_kept : {TRUE},
     throws : {FALSE}]

\* P25FrameParser::open, p25_frame_parser.cc lines 13-21, on a parser whose
\* stream is_open() or not: std::ifstream::open fails on a stream that is
\* open and leaves it open, and open() returns !(!file_.is_open()).
ParserOpen(is_open, exists) == is_open \/ exists

\* JobManager::process_job, lines 247-303, on a decoder whose parser stream
\* is_open() or not: what it returns, the error_message it leaves and the
\* stream afterwards.
process_job(is_open, o) ==
    IF ~ParserOpen(is_open, o.exists)
    THEN [success |-> FALSE, error |-> "Failed to open P25 file",
          is_open |-> FALSE]
    ELSE IF o.throws
    THEN [success |-> FALSE, error |-> "Exception during processing",
          is_open |-> TRUE]
    ELSE IF ~o.wav_created
    THEN [success |-> FALSE, error |-> "Failed to decode P25 audio",
          is_open |-> TRUE]
    ELSE IF ~o.wav_kept
    THEN [success |-> FALSE, error |-> "WAV file was not generated",
          is_open |-> TRUE]
    ELSE [success |-> TRUE, error |-> "", is_open |-> TRUE]

\* A get_thread_decoder that keys the map by a constant.
ThreadKeyShared(w) == 1

\* get_thread_decoder, line 308: std::this_thread::get_id(), one value per
\* running thread.
ThreadKey(w) == w

\* std::make_unique<P25Decoder>(): an object that is none of those the map
\* `m` owns (the lowest such number).
FreshDecoder(m) ==
    CHOOSE d \in Decoders :
        /\ \A k \in Workers : m[k] # d
        /\ \A e \in Decoders : (\A k \in Workers : m[k] # e) => d <= e

\* JobManager::get_thread_decoder, under decoder_mutex_: the decoder the
\* map holds for the calling thread, created on the first call.
get_thread_decoder(w) ==
    IF thread_decoders[ThreadKey(w)] = NoDecoder
    THEN [thread_decoders EXCEPT ![ThreadKey(w)] = FreshDecoder(thread_decoders)]
    ELSE thread_decoders

\* process_job, line 241: P25Decoder* decoder = get_thread_decoder().
WorkerGetDecoder(w) ==
    /\ wpc[w] = "decoder"
    /\ thread_decoders' = get_thread_decoder(w)
    /\ wdecoder' = [wdecoder EXCEPT ![w] = thread_decoders'[ThreadKey(w)]]
    /\ parser_is_open' =
        IF thread_decoders[ThreadKey(w)] = NoDecoder
        THEN [parser_is_open EXCEPT ![thread_decoders'[ThreadKey(w)]] = FALSE]
        ELSE parser_is_open
    /\ wpc' = [wpc EXCEPT ![w] = "process"]
    /\ UNCHANGED <<job_queue, job_tracker, jobVars, statVars, wjob, wsuccess,
                   submitVars, ctlVars, histVars, clock, serviceVars>>

\* The capture and the WAV file are as they should be and the decode
\* returns (process_job, line 297).
DecodeSucceeds ==
    [exists : {TRUE}, wav_created : {TRUE}, wav_kept : {TRUE},
     throws : {FALSE}]

\* Line 205: bool success = process_job(job), from line 247 on, with what
\* the files and the decoder give it, one of `outcomes`; the local
\* `decoder` ends with the call.
WorkerProcess(w, outcomes) ==
    /\ wpc[w] = "process"
    /\ \E o \in outcomes :
        LET r == process_job(parser_is_open[wdecoder[w]], o) IN
        /\ wsuccess' = [wsuccess EXCEPT ![w] = r.success]
        /\ error_message' = [error_message EXCEPT ![wjob[w]] =
                                IF r.success THEN @ ELSE r.error]
        /\ parser_is_open' = [parser_is_open EXCEPT ![wdecoder[w]] = r.is_open]
        /\ files_failed' = IF o.exists /\ o.wav_created THEN files_failed
                            ELSE files_failed \cup {wjob[w]}
    /\ wdecoder' = [wdecoder EXCEPT ![w] = NoDecoder]
    /\ wpc' = [wpc EXCEPT ![w] = "update"]
    /\ UNCHANGED <<job_queue, job_tracker, status, job_id, received_time,
                   started_time, completed_time, statVars, wjob, submitVars,
                   ctlVars, claim_order, queued_at_stop, removed, clock,
                   thread_decoders, serviceVars>>

\* Lines 207-227: completed_time, then COMPLETED and jobs_completed_++ or
\* FAILED and jobs_failed_++.
WorkerUpdate(w) ==
    /\ wpc[w] = "update"
    /\ completed_time' = [completed_time EXCEPT ![wjob[w]] = clock]
    /\ IF wsuccess[w]
       THEN /\ status' = [status EXCEPT ![wjob[w]] = COMPLETED]
            /\ jobs_completed' = jobs_completed + 1
            /\ UNCHANGED jobs_failed
       ELSE /\ status' = [status EXCEPT ![wjob[w]] = FAILED]
            /\ jobs_failed' = jobs_failed + 1
            /\ UNCHANGED jobs_completed
    /\ wpc' = [wpc EXCEPT ![w] = "dec"]
    /\ UNCHANGED <<job_queue, job_tracker, error_message, job_id,
                   received_time, started_time, jobs_queued, active_workers,
                   wjob, wsuccess, wdecoder, submitVars, ctlVars, histVars,
                   clock, decoderVars,
                   serviceVars>>

\* Line 229: active_workers_--, and the end of the loop body (the local
\* `job` goes out of scope).
WorkerDeactivate(w) ==
    /\ wpc[w] = "dec"
    /\ active_workers' = active_workers - 1
    /\ wjob' = [wjob EXCEPT ![w] = NoJob]
    /\ wsuccess' = [wsuccess EXCEPT ![w] = FALSE]
    /\ wpc' = [wpc EXCEPT ![w] = "loop"]
    /\ UNCHANGED <<job_queue, job_tracker, jobVars, jobs_queued,
                   jobs_completed, jobs_failed, wdecoder, submitVars, ctlVars,
                   histVars, clock, decoderVars,
                   serviceVars>>

\* --------------------------------------------------------------- P25Decoder
\* The codewords at which the vocoder can throw while a voice frame is
\* decoded (0: it does not throw).
FaultAt == {0, 1, 2, CodewordsPerLdu}

\* P25Decoder::add_des_key, P25DESDecrypt::add_key: d_keys[keyid] = key.
AddDesKey(k) ==
    /\ dpc = "idle"
    /\ k \notin d_keys
    /\ d_keys' = d_keys \cup {k}
    /\ UNCHANGED <<managerVars, httpVars, gen, pjob, plugin, streamVars, frame, frame_count,
                   metadata, audio_buffer, current_mi, wav, dpc, dresult,
                   yielded, contrib>>

\* P25Decoder::open_p25_file naming a file written from the units `us`
\* that has lost its last `cut` bytes, or a file that does not exist.
\* P25FrameParser::open opens the stream when it is not open; on a stream
\* that is open std::ifstream::open fails, sets failbit and leaves the
\* stream, its position and its eofbit as they are.  When the stream
\* is_open() afterwards, metadata_ and audio_buffer_ are reset and true is
\* returned.
open_p25_file(us, cut, exists) ==
    /\ requested' = [exists |-> exists, units |-> us,
                     bytes |-> SubSeq(EncodeUnits(us), 1, Len(EncodeUnits(us)) - cut)]
    /\ IF ~file_is_open /\ exists
       THEN /\ capture' = requested'.bytes
            /\ cap_units' = us
            /\ fpos' = 0
            /\ feof' = FALSE
            /\ ffail' = FALSE
            /\ file_is_open' = TRUE
       ELSE /\ ffail' = TRUE
            /\ UNCHANGED <<capture, cap_units, fpos, feof, file_is_open>>
    /\ IF ParserOpen(file_is_open, exists)
       THEN /\ metadata' = NewMetadata
            /\ audio_buffer' = <<>>
            /\ dpc' = "opened"
       ELSE /\ dpc' = "failed"
            /\ UNCHANGED <<metadata, audio_buffer>>
    /\ yielded' = <<>>
    /\ contrib' = <<>>
    /\ UNCHANGED <<managerVars, httpVars, gen, pjob, plugin, frame, frame_count, d_keys,
                   current_mi, wav, dresult>>

\* open_p25_file on a decoder that has not been used.
OpenP25File(us, cut, exists) ==
    /\ dpc = "idle"
    /\ cut <= Len(EncodeUnits(us))
    /\ open_p25_file(us, cut, exists)

\* open_p25_file on a decoder that has been used: decode_to_audio has
\* returned, or the file of the last open_p25_file was missing.
ReopenP25File(us, cut, exists) ==
    /\ dpc \in {"done", "failed"}
    /\ cut <= Len(EncodeUnits(us))
    /\ open_p25_file(us, cut, exists)

\* decode_to_audio, lines 360-379: the WAV file is created and its header
\* written, or false is returned; `frame` and `frame_count` start afresh.
DecodeBegin ==
    /\ dpc = "opened"
    /\ \E wav_created \in BOOLEAN :
        IF wav_created
        THEN /\ dpc' = "read"
             /\ wav' = write_wav_header
             /\ UNCHANGED dresult
        ELSE /\ dpc' = "done"
             /\ dresult' = FALSE
             /\ wav' = NoWav
    /\ frame' = NewFrame
    /\ frame_count' = 0
    /\ UNCHANGED <<managerVars, httpVars, gen, pjob, plugin, streamVars, metadata, audio_buffer,
                   d_keys, current_mi, yielded, contrib>>

\* Line 381: the test of the while loop, parser_->read_frame(frame).  A
\* stream with failbit set delivers nothing.
ReadFrame ==
    /\ dpc = "read"
    /\ LET r == IF ffail /\ ~feof
                THEN [ok |-> FALSE, frame |-> frame, pos |-> fpos, eof |-> feof]
                ELSE read_frame(frame, capture, fpos, feof)
       IN
        /\ frame' = r.frame
        /\ fpos' = r.pos
        /\ feof' = r.eof
        /\ ffail' = (ffail \/ r.eof)
        /\ dpc' = IF r.ok THEN "body" ELSE "finish"
        /\ yielded' = IF r.ok
                      THEN Append(yielded, [start |-> fpos, duid |-> r.frame.duid,
                                            nac |-> r.frame.nac,
                                            length |-> r.frame.length,
                                            size |-> Len(r.frame.data),
                                            is_voice_frame |-> r.frame.is_voice_frame,
                                            algorithm_id |-> r.frame.algorithm_id,
                                            key_id |-> r.frame.key_id])
                      ELSE yielded
    /\ UNCHANGED <<managerVars, httpVars, gen, pjob, plugin, capture, cap_units, file_is_open,
                   requested, frame_count, metadata, audio_buffer, d_keys,
                   current_mi, wav, dresult, contrib>>

\* Lines 382-417, the body of the loop: the counters, the NAC of the first
\* frame, the encrypted flag, and for a voice frame decode_voice_frame and
\* the samples appended to the WAV file and to audio_buffer_.
ProcessFrame(fault) ==
    /\ dpc = "body"
    /\ fault # 0 => frame.is_voice_frame
    /\ frame_count' = frame_count + 1
    /\ LET vf == metadata.voice_frames + 1
           d == decode_voice_frame(frame, vf, fault)
       IN /\ metadata' =
                [metadata EXCEPT
                    !.total_frames = @ + 1,
                    !.nac = IF frame_count + 1 = 1 THEN frame.nac ELSE @,
                    !.has_encrypted_frames = @ \/ frame.is_encrypted,
                    !.voice_frames = IF frame.is_voice_frame THEN vf ELSE @]
          /\ audio_buffer' = IF frame.is_voice_frame /\ d.ok
                             THEN audio_buffer \o d.samples
                             ELSE audio_buffer
          /\ wav' = IF frame.is_voice_frame /\ d.ok
                    THEN write_audio_samples(wav, d.samples)
                    ELSE wav
          /\ contrib' = IF frame.is_voice_frame
                        THEN Append(contrib, [fault |-> fault,
                                              frame_no |-> frame_count + 1,
                                              samples |-> d.samples])
                        ELSE contrib
    /\ dpc' = "read"
    /\ UNCHANGED <<managerVars, httpVars, gen, pjob, plugin, streamVars, frame, d_keys,
                   current_mi, dresult, yielded>>

\* Lines 420-457: the metadata is finalized, close_audio_output writes the
\* sizes into the WAV header and closes the file, and true is returned.
DecodeFinish ==
    /\ dpc = "finish"
    /\ wav' = close_audio_output(wav)
    /\ dresult' = TRUE
    /\ dpc' = "done"
    /\ UNCHANGED <<managerVars, httpVars, gen, pjob, plugin, streamVars, frame, frame_count,
                   metadata, audio_buffer, d_keys, current_mi, yielded,
                   contrib>>

\* -------------------------------------- HttplibService, ApiService: decode
\* The server hands a POST /api/v1/decode request to handle_decode_request.
HandleReceive(r) ==
    /\ hpc[r] = "none"
    /\ hpc' = [hpc EXCEPT ![r] = "auth"]
    /\ UNCHANGED <<managerVars, decVars, gen, pjob, plugin, hstatus, htemp, hdecoded>>

\* httplib_service.cc lines 145-161 (api_service.cc 106-127): 401 without a
\* valid token, 400 without the p25_file part.
HandleValidate(r) ==
    /\ hpc[r] = "auth"
    /\ \E token_ok, has_file \in BOOLEAN :
        IF ~token_ok
        THEN /\ hstatus' = [hstatus EXCEPT ![r] = 401]
             /\ hpc' = [hpc EXCEPT ![r] = "done"]
        ELSE IF ~has_file
        THEN /\ hstatus' = [hstatus EXCEPT ![r] = 400]
             /\ hpc' = [hpc EXCEPT ![r] = "done"]
        ELSE /\ hpc' = [hpc EXCEPT ![r] = "store"]
             /\ UNCHANGED hstatus
    /\ UNCHANGED <<managerVars, decVars, gen, pjob, plugin, htemp, hdecoded>>

\* Lines 183-207: the upload is written to a temporary file and the output
\* names are built.
HandleStore(r) ==
    /\ hpc[r] = "store"
    /\ htemp' = [htemp EXCEPT ![r] = TRUE]
    /\ hpc' = [hpc EXCEPT ![r] = "open"]
    /\ UNCHANGED <<managerVars, decVars, gen, pjob, plugin, hstatus, hdecoded>>

\* Lines 209-215 (api_service.cc 311-316): decoder_.open_p25_file on the
\* handler's thread; 400 and cleanup when it fails.
HandleOpen(r) ==
    /\ hpc[r] = "open"
    /\ \E opened \in BOOLEAN :
        IF opened
        THEN /\ hpc' = [hpc EXCEPT ![r] = "decode"]
             /\ UNCHANGED <<hstatus, htemp>>
        ELSE /\ hstatus' = [hstatus EXCEPT ![r] = 400]
             /\ htemp' = [htemp EXCEPT ![r] = FALSE]
             /\ hpc' = [hpc EXCEPT ![r] = "done"]
    /\ UNCHANGED <<managerVars, decVars, gen, pjob, plugin, hdecoded>>

\* Lines 217-223 (api_service.cc 319-324): decoder_.decode_to_audio on the
\* handler's thread, which returns when the whole capture is decoded; 500
\* and cleanup when it fails.
HandleDecode(r) ==
    /\ hpc[r] = "decode"
    /\ hdecoded' = [hdecoded EXCEPT ![r] = TRUE]
    /\ \E decoded \in BOOLEAN :
        IF decoded
        THEN /\ hpc' = [hpc EXCEPT ![r] = "respond"]
             /\ UNCHANGED <<hstatus, htemp>>
        ELSE /\ hstatus' = [hstatus EXCEPT ![r] = 500]
             /\ htemp' = [htemp EXCEPT ![r] = FALSE]
             /\ hpc' = [hpc EXCEPT ![r] = "done"]
    /\ UNCHANGED <<managerVars, decVars, gen, pjob, plugin>>

\* Lines 225-265: the response is built from the decoder's results, status
\* 200, and the temporary file is removed.
HandleRespond(r) ==
    /\ hpc[r] = "respond"
    /\ hstatus' = [hstatus EXCEPT ![r] = 200]
    /\ htemp' = [htemp EXCEPT ![r] = FALSE]
    /\ hpc' = [hpc EXCEPT ![r] = "done"]
    /\ UNCHANGED <<managerVars, decVars, gen, pjob, plugin, hdecoded>>

\* Lines 267-276 (api_service.cc 380-387): an exception thrown after the
\* upload was stored ends the handler with 500; the catch block does not
\* remove the temporary file.
HandleException(r) ==
    /\ hpc[r] \in {"open", "decode", "respond"}
    /\ hstatus' = [hstatus EXCEPT ![r] = 500]
    /\ hpc' = [hpc EXCEPT ![r] = "done"]
    /\ UNCHANGED <<managerVars, decVars, gen, pjob, plugin, htemp, hdecoded>>

HandlerStep(r) ==
    \/ HandleReceive(r)
    \/ HandleValidate(r)
    \/ HandleStore(r)
    \/ HandleOpen(r)
    \/ HandleDecode(r)
    \/ HandleRespond(r)
    \/ HandleException(r)

\* ------------------------------------------------------------ specification
WorkerStep(w, outcomes) ==
    \/ WorkerLoop(w)
    \/ WorkerDequeue(w)
    \/ WorkerActivate(w)
    \/ WorkerGetDecoder(w)
    \/ WorkerProcess(w, outcomes)
    \/ WorkerUpdate(w)
    \/ WorkerDeactivate(w)

SubmitterStep(s) ==
    \/ QueueJobPush(s)
    \/ QueueJobTrack(s)
    \/ QueueJobNotify(s)

StopStep ==
    \/ StopNotify
    \/ StopJoin
    \/ StopClear

\* The steps of the queue and the workers, for the submitters `subs`, the
\* job ids `ids` the random draw can give and the decode outcomes `outcomes`.
RunStep(subs, ids, outcomes) ==
    \/ Start
    \/ \E s \in subs : QueueJobCreate(s, ids) \/ SubmitterStep(s)
    \/ \E w \in Workers : WorkerStep(w, outcomes) \/ SpuriousWakeup(w)

\* The same, and stop().
ManagerStep(subs, ids, outcomes) ==
    \/ RunStep(subs, ids, outcomes)
    \/ StopSignal
    \/ StopStep

\* The queue and the workers.  Nothing in their control flow reads a
\* timestamp, a job id, an error_message, the tracker or a counter, so the
\* clock stands still, one id is drawn and a decode succeeds or throws.
Next == ManagerStep(Submitters, OneId, BasicOutcomes)

Spec == Init /\ [][Next]_vars

\* The threads are scheduled fairly: a worker that can take a step takes it
\* (process_job returns), a submitter inside queue_job goes on to its end,
\* and stop(), once it has set the flag, goes on.  Calling start, stop or
\* queue_job is up to the caller.
Fairness(subs, outcomes) ==
    /\ \A w \in Workers : WF_vars(WorkerStep(w, outcomes))
    /\ \A s \in subs : WF_vars(SubmitterStep(s))
    /\ WF_vars(StopStep)

FairNext == ManagerStep({"s1"}, OneId, BasicOutcomes)

FairSpec == Init /\ [][FairNext]_vars /\ Fairness({"s1"}, BasicOutcomes)

\* A running manager with the clock running: what the timestamps of a job
\* can be.  stop() reads and writes no timestamp.
TimedNext == RunStep({"s1"}, OneId, BasicOutcomes) \/ Tick

TimedSpec == Init /\ [][TimedNext]_vars

\* The tracker: the random draw of line 88 can give the same number twice
\* within one second, and the caller removes tracked jobs.  Every decode
\* succeeds.
TrackerNext ==
    \/ RunStep(Submitters, JobIds, DecodeSucceeds)
    \/ \E id \in JobIds : RemoveCompletedJob(id)

TrackerSpec == Init /\ [][TrackerNext]_vars

\* Two submitters with the clock running: the order of the received_time
\* stamps against the order of the pushes.  Every decode succeeds.
ArrivalNext ==
    \/ RunStep(Submitters, OneId, DecodeSucceeds)
    \/ clock < MaxArrivalClock /\ Tick

ArrivalSpec == Init /\ [][ArrivalNext]_vars

\* The workers and the files: a capture may be missing and the WAV file
\* may not be creatable.  One submitter, no stop().
FileNext == RunStep({"s1"}, OneId, FileOutcomes)

FileSpec == Init /\ [][FileNext]_vars

\* The HTTP front end: concurrent POST /api/v1/decode requests.  The
\* handlers call no function of JobManager.
HttpNext == \E r \in Requests : HandlerStep(r)

HttpSpec == Init /\ [][HttpNext]_vars

\* ------------------------------------------------ process_job: the files
\* A JSON text is a sequence of tokens: the braces, the comma and the
\* members "key": value, each with the side its value comes from (the
\* external metadata, an existing .json file, the decoder).  White space is
\* not kept.
JsonToken(t) == [t |-> t, key |-> "", from |-> ""]
JsonPair(key, from) == [t |-> "pair", key |-> key, from |-> from]
EmptyText == <<>>

\* The members `keys`, with a comma between two of them.
JsonFields(keys, from) ==
    [i \in 1..(2 * Len(keys) - 1) |->
        IF i % 2 = 1 THEN JsonPair(keys[(i + 1) \div 2], from)
        ELSE JsonToken(",")]

JsonObject(keys, from) ==
    <<JsonToken("{")>> \o JsonFields(keys, from) \o <<JsonToken("}")>>

\* A file that does not exist, and a file with a text in it.
NoFile == [exists |-> FALSE, text |-> EmptyText]
FileOf(text) == [exists |-> TRUE, text |-> text]

\* generate_json_metadata, lines 278 and 313: content.rfind("}"), 0 for npos.
LastBrace(text) ==
    LET S == {i \in 1..Len(text) : text[i].t = "}"}
    IN IF S = {} THEN 0 ELSE CHOOSE i \in S : \A k \in S : k <= i

\* generate_json_metadata: the members the decoder writes after an existing
\* .json file (lines 292-297), after the external metadata (lines 325-328)
\* and on its own (lines 342-351).
DecoderFields(branch) ==
    IF branch = "existing"
    THEN <<"decoder_source", "input_file", "p25_frames", "voice_frames",
           "nac", "note">>
    ELSE IF branch = "external"
    THEN <<"decoder_source", "input_file", "p25_frames", "voice_frames">>
    ELSE <<"call_length", "audio_type", "nac", "encrypted", "decoder_source",
           "input_file", "p25_frames", "voice_frames">>

\* Lines 279-299 and 314-330: the text up to its last closing brace, a
\* comma unless the text is empty or ends with one, the decoder's members
\* and a closing brace.
AppendDecoderFields(text, keys) ==
    LET base == SubSeq(text, 1, LastBrace(text) - 1)
        sep == IF base # <<>> /\ base[Len(base)].t # ","
               THEN <<JsonToken(",")>> ELSE <<>>
    IN base \o sep \o JsonFields(keys, "decoder") \o <<JsonToken("}")>>

\* P25Decoder::generate_json_metadata, lines 242-358: `existing` is the file
\* <basename>.json of the working directory, `external` is
\* external_metadata_.
generate_json_metadata(existing, external) ==
    IF existing.exists /\ LastBrace(existing.text) # 0
    THEN AppendDecoderFields(existing.text, DecoderFields("existing"))
    ELSE IF external # EmptyText
    THEN IF LastBrace(external) # 0
         THEN AppendDecoderFields(external, DecoderFields("external"))
         ELSE EmptyText
    ELSE JsonObject(DecoderFields("basic"), "decoder")

\* A cleanup that removes nothing.
cleanup_skipped(delete_temp_files, exists) == exists

\* JobManager::cleanup_temp_files, lines 322-337: whether the capture file
\* exists afterwards.
cleanup_temp_files(delete_temp_files, exists) ==
    IF ~delete_temp_files THEN exists ELSE FALSE

\* JobManager::process_job, lines 238-304, with the files it leaves: the
\* capture (cleanup_temp_files is called on every path that returns), the
\* WAV file, the sidecar decode_to_audio writes at lines 444-453 and
\* process_job overwrites with metadata_json at lines 265-279, and the
\* upload script run at lines 290-292 with the exit code `exit`.
ProcessJobFiles(job, o, existing, exit) ==
    LET r == process_job(job.is_open, o)
        wav_opened == ParserOpen(job.is_open, o.exists) /\ o.wav_created
        decoded == wav_opened /\ ~o.throws
        written == IF decoded
                   THEN FileOf(generate_json_metadata(existing, EmptyText))
                   ELSE NoFile
        hook == r.success /\ job.upload_script = "hook"
    IN [job EXCEPT
          !.pc = "returned",
          !.success = r.success,
          !.error_message = IF r.success THEN @ ELSE r.error,
          !.is_open = r.is_open,
          !.temp = cleanup_temp_files(job.delete_temp_files, o.exists),
          !.wav = wav_opened /\ o.wav_kept,
          !.sidecar = IF decoded /\ job.metadata_json # EmptyText
                      THEN FileOf(job.metadata_json) ELSE written,
          !.existing = existing,
          !.hook_run = hook,
          !.hook_exit = IF hook THEN exit ELSE 0]

\* The metadata_json of a job: none, an object, an object with a member the
\* decoder writes too, and the empty object.
MetadataTexts ==
    {EmptyText, JsonObject(<<"talkgroup">>, "external"),
     JsonObject(<<"talkgroup", "p25_frames">>, "external"),
     JsonObject(<<>>, "external")}

\* The file <basename>.json of the working directory: none, or one left by
\* the recorder.
ExistingFiles == {NoFile, FileOf(JsonObject(<<"freq">>, "existing"))}

\* The upload_script of a job: none, a path that does not exist, a script.
UploadScripts == {"", "missing", "hook"}

\* The results of std::system for the upload script.
HookExits == {0, 1}

\* What the files and the decoder give one call of process_job: a decode
\* can throw only after its WAV file was created.
JobOutcomes == {o \in ProcessOutcomes : o.throws => o.wav_created}

\* queue_job and lines 189-194 of worker_thread_main: a job queued with
\* these arguments (delete_temp_files is true from the constructor and is
\* not written again) is claimed by the worker; its capture file is there
\* or is not.
JobClaim(metadata_json, upload_script, temp) ==
    /\ pjob.pc = "none"
    /\ pjob' = [pc |-> "claimed", is_open |-> pjob.is_open,
                status |-> PROCESSING, metadata_json |-> metadata_json,
                upload_script |-> upload_script, delete_temp_files |-> TRUE,
                temp |-> temp, wav |-> FALSE, sidecar |-> NoFile,
                existing |-> NoFile, external |-> EmptyText,
                hook_run |-> FALSE, hook_exit |-> 0,
                success |-> FALSE, error_message |-> ""]
    /\ UNCHANGED <<managerVars, httpVars, decVars, gen, plugin>>

\* Line 205: success = process_job(job).
JobProcess(o, existing, exit) ==
    /\ pjob.pc = "claimed"
    /\ o.exists = pjob.temp
    /\ pjob' = ProcessJobFiles(pjob, o, existing, exit)
    /\ UNCHANGED <<managerVars, httpVars, decVars, gen, plugin>>

\* Lines 207-227: COMPLETED or FAILED.
JobUpdate ==
    /\ pjob.pc = "returned"
    /\ pjob' = [pjob EXCEPT !.pc = "done",
                            !.status = IF pjob.success THEN COMPLETED ELSE FAILED]
    /\ UNCHANGED <<managerVars, httpVars, decVars, gen, plugin>>

\* The worker goes round its loop with the decoder it has.
JobRelease ==
    /\ pjob.pc \in {"done", "direct"}
    /\ pjob' = [pc |-> "none", is_open |-> pjob.is_open]
    /\ UNCHANGED <<managerVars, httpVars, decVars, gen, plugin>>

\* A caller of P25Decoder of its own: set_external_metadata(external)
\* (lines 686-691), open_p25_file and decode_to_audio, which writes the
\* sidecar at lines 444-453.
DecodeDirect(external, existing) ==
    /\ pjob.pc = "none"
    /\ pjob' = [pc |-> "direct", is_open |-> pjob.is_open,
                external |-> external, existing |-> existing,
                sidecar |-> FileOf(generate_json_metadata(existing, external))]
    /\ UNCHANGED <<managerVars, httpVars, decVars, gen, plugin>>

\* One worker and the files of its jobs, and a decoder used directly.
JobFilesNext ==
    \/ \E m \in MetadataTexts, u \in UploadScripts, t \in BOOLEAN :
            JobClaim(m, u, t)
    \/ \E o \in JobOutcomes, e \in ExistingFiles, x \in HookExits :
            JobProcess(o, e, x)
    \/ JobUpdate
    \/ JobRelease
    \/ \E m \in MetadataTexts, e \in ExistingFiles : DecodeDirect(m, e)

JobFilesSpec == Init /\ [][JobFilesNext]_vars

\* ----------------------------------------- keystream generator: actions
\* The key ids prepare is called with; add_key stores under the first.
GenKeyIds == {1, 2}

\* The keys add_key is given: one byte short of the key array, of its
\* length, and one byte longer (for AES the 32-byte key).
GenKeys(c) ==
    {[i \in 1..n |-> i] :
        n \in IF c = "AES" THEN {AesKeyBytes}
              ELSE (KeyBytes(c) - 1)..(KeyBytes(c) + 1)}

\* The message indicators prepare is given.
GenMis == {ZeroMi, MessageIndicator(DesLdu2)}

\* The sizes of the codewords decrypt_imbe_codeword is given.
CodewordSizes == {10, 11, 12}

\* The outcomes of the out-of-bounds write of prepare: the byte written is
\* one the program does not use again, or the process is ended.
UbOutcomes == {"written", "abort"}

GenLive == gen.class \in GenClasses /\ gen.last.ub # "abort"

\* P25DESDecrypt(), P25AESDecrypt(), P25ADPDecrypt(): d_position(0), the
\* keystream zero-filled, no key.
GenNew(c) ==
    /\ gen.class = "none"
    /\ gen' = [class |-> c, d_keys |-> <<>>, d_position |-> 0,
               d_keystream |-> ZeroKeystream, codeword |-> <<>>,
               last |-> NoCall, decrypts |-> 0]
    /\ UNCHANGED <<managerVars, httpVars, decVars, pjob, plugin>>

\* add_key(keyid, key): d_keys[keyid] = key; return true.
GenAddKey(keyid, key) ==
    /\ GenLive
    /\ gen' = [gen EXCEPT
                !.d_keys = [k \in DOMAIN gen.d_keys \cup {keyid} |->
                                IF k = keyid THEN key ELSE gen.d_keys[k]],
                !.last = [NoCall EXCEPT !.op = "add_key", !.ok = TRUE,
                                        !.keyid = keyid, !.key = key,
                                        !.position = gen.d_position]]
    /\ UNCHANGED <<managerVars, httpVars, decVars, pjob, plugin>>

\* prepare(keyid, mi).  With a stored key longer than the key array the
\* loop writes outside the array, which is undefined behaviour.
GenPrepare(keyid, mi) ==
    /\ GenLive
    /\ LET r == IF gen.class = "AES"
                THEN aes_prepare(gen.d_keys, keyid, mi, gen.d_keystream)
                ELSE prepare(KeyBytes(gen.class), gen.d_keys, keyid, mi,
                             gen.d_position, gen.d_keystream)
           ubs == IF r.ok /\ gen.class # "AES"
                        /\ WritesOutOfBounds(gen.d_keys[keyid], KeyBytes(gen.class))
                  THEN UbOutcomes ELSE {"none"}
       IN \E ub \in ubs :
            LET call == [NoCall EXCEPT
                            !.op = "prepare", !.ok = r.ok, !.keyid = keyid,
                            !.key = IF r.ok THEN gen.d_keys[keyid] ELSE <<>>,
                            !.position = gen.d_position, !.ub = ub]
            IN gen' = IF ub = "abort"
                      THEN [gen EXCEPT !.last = call]
                      ELSE [gen EXCEPT !.last = call,
                                       !.d_position = r.position,
                                       !.d_keystream = r.keystream,
                                       !.decrypts = IF r.ok THEN 0 ELSE -1]
    /\ UNCHANGED <<managerVars, httpVars, decVars, pjob, plugin>>

\* decrypt_imbe_codeword(codeword, is_ldu2, voice_frame_num).
GenDecrypt(is_ldu2, size) ==
    /\ GenLive
    /\ size >= 11 => gen.decrypts < MaxDecrypts
    /\ gen.class = "AES" => size >= 11
    /\ LET r == IF gen.class = "AES"
                THEN aes_decrypt_codeword(gen.d_position, is_ldu2, size)
                ELSE decrypt_imbe_codeword(
                        KeystreamOffset(gen.class, gen.d_position, is_ldu2),
                        KeystreamBytes(gen.class), gen.d_position, size)
       IN gen' = [gen EXCEPT
                    !.d_position = r.position,
                    !.codeword = r.codeword,
                    !.last = [NoCall EXCEPT !.op = "decrypt", !.ok = r.ok,
                                            !.position = gen.d_position,
                                            !.is_ldu2 = is_ldu2, !.size = size],
                    !.decrypts = IF size >= 11 /\ @ >= 0 THEN @ + 1 ELSE @]
    /\ UNCHANGED <<managerVars, httpVars, decVars, pjob, plugin>>

\* One keystream generator: keys are added, prepare and
\* decrypt_imbe_codeword are called in any order.
KeystreamNext ==
    \/ \E c \in GenClasses : GenNew(c)
    \/ \E key \in GenKeys(gen.class) : GenAddKey(1, key)
    \/ \E keyid \in GenKeyIds, mi \in GenMis : GenPrepare(keyid, mi)
    \/ \E is_ldu2 \in BOOLEAN, size \in CodewordSizes : GenDecrypt(is_ldu2, size)

KeystreamSpec == Init /\ [][KeystreamNext]_vars

\* One decoder: keys are added, a capture is opened and decoded.
DecodeNext ==
    \/ \E k \in KeyIds : AddDesKey(k)
    \/ \E us \in CaptureSeqs, cut \in 0..MaxCut, exists \in BOOLEAN :
            OpenP25File(us, cut, exists)
    \/ DecodeBegin
    \/ ReadFrame
    \/ \E fault \in FaultAt : ProcessFrame(fault)
    \/ DecodeFinish

DecodeSpec == Init /\ [][DecodeNext]_vars

\* One P25Decoder used for one capture after another, as a worker uses the
\* decoder of its thread: open_p25_file, decode_to_audio, open_p25_file ...
ReuseSeqs == UNION {[1..n -> CaptureUnits] : n \in 0..MaxReuseUnits}

ReuseNext ==
    \/ \E us \in ReuseSeqs, exists \in BOOLEAN : OpenP25File(us, 0, exists)
    \/ \E us \in ReuseSeqs, exists \in BOOLEAN : ReopenP25File(us, 0, exists)
    \/ DecodeBegin
    \/ ReadFrame
    \/ ProcessFrame(0)
    \/ DecodeFinish

ReuseSpec == Init /\ [][ReuseNext]_vars


\* ------------------------------------------------------------------ claims
\* C1: in every reachable state, whatever the interleaving of queue_job
\* calls and worker dequeues, the job queue holds at most max_queue_size_
\* jobs.
C1_QueueBounded == Len(job_queue) <= max_queue_size_

\* The queue is full while a submitter is about to test it and a worker is
\* about to dequeue.
C1_Witness ==
    /\ Len(job_queue) = max_queue_size_
    /\ \E s \in Submitters : spc[s] = "created"
    /\ \E w \in Workers : wpc[w] = "lock"

\* C2: queue_job on a full queue returns the empty job id in that very
\* step (it is never blocked: its locked region can always run), and the
\* queue, the tracker and jobs_queued_ are as before.
C2_RejectWhenFull ==
    /\ [](\A s \in Submitters : spc[s] = "created" => ENABLED QueueJobPush(s))
    /\ [][\A s \in Submitters :
            (spc[s] = "created" /\ spc'[s] # "created"
                /\ Len(job_queue) >= max_queue_size_)
            => /\ spc'[s] = "idle"
               /\ sresult'[s] = EmptyId
               /\ job_queue' = job_queue
               /\ job_tracker' = job_tracker
               /\ jobs_queued' = jobs_queued]_vars

\* A queue_job has returned the empty id and the queue is still full.
C2_Witness ==
    \E s \in Submitters :
        /\ sresult[s] = EmptyId
        /\ spc[s] = "idle"
        /\ Len(job_queue) = max_queue_size_

\* The changes of status a job may go through.
StatusMoves ==
    { <<NoStatus, QUEUED>>, <<QUEUED, PROCESSING>>,
      <<PROCESSING, COMPLETED>>, <<PROCESSING, FAILED>> }

\* C3: a job's status only ever changes QUEUED -> PROCESSING -> COMPLETED
\* or QUEUED -> PROCESSING -> FAILED (it is QUEUED when it is admitted);
\* COMPLETED and FAILED are never left.
C3_StatusMonotone ==
    [][\A j \in Jobs :
        status'[j] # status[j] => <<status[j], status'[j]>> \in StatusMoves]_vars

\* One job has ended COMPLETED, another FAILED, a third is still QUEUED.
C3_Witness ==
    /\ \E j \in Jobs : status[j] = COMPLETED
    /\ \E j \in Jobs : status[j] = FAILED
    /\ \E j \in Jobs : status[j] = QUEUED

\* C4: jobs are claimed in the order in which they were pushed: the k-th
\* job claimed is the k-th job pushed (job k), for any number of workers.
C4_FifoDispatch ==
    \A k \in 1..Len(claim_order) : claim_order[k] = k

\* Two jobs were waiting in the queue together and both workers have just
\* claimed one each.
C4_Witness ==
    /\ Len(claim_order) = MaxJobs
    /\ \A w \in Workers : wpc[w] = "claimed"

\* C10: a job is claimed by at most one worker and only once: no job is
\* popped twice, no two workers hold the same job, and a job a worker holds
\* is no longer in the queue.
C10_ExclusiveClaim ==
    /\ \A a, b \in 1..Len(claim_order) : claim_order[a] = claim_order[b] => a = b
    /\ \A a, b \in 1..Len(job_queue) : job_queue[a] = job_queue[b] => a = b
    /\ \A v, w \in Workers :
        (wjob[v] # NoJob /\ wjob[v] = wjob[w]) => v = w
    /\ \A w \in Workers :
        wjob[w] # NoJob => /\ wjob[w] \notin Range(job_queue)
                           /\ wjob[w] \in Range(claim_order)

\* Both workers are inside process_job at once, with a job waiting.
C10_Witness ==
    /\ \A w \in Workers : wpc[w] = "process"
    /\ job_queue # <<>>


\* C5: with the workers started, under fair scheduling and with every
\* decode returning, every admitted job that is QUEUED or PROCESSING ends
\* COMPLETED or FAILED, unless stop() is called.
C5_JobsFinish ==
    \A j \in Jobs :
        (status[j] \in {QUEUED, PROCESSING} /\ worker_threads # {})
            ~> (status[j] \in {COMPLETED, FAILED} \/ shutdown_requested)

\* Every job admitted has ended and stop() was never called.
C5_Witness ==
    /\ \A j \in Jobs : status[j] \in {COMPLETED, FAILED}
    /\ ~shutdown_requested
    /\ worker_threads # {}

\* C7: once stop() has set the flag, every worker exits and stop() returns;
\* a job that is PROCESSING is left only by its own worker's update, for
\* COMPLETED when its process_job succeeded and FAILED when it did not, and
\* it does end.
C7_StopTerminates ==
    /\ (cpc = "notify") ~> (cpc = "idle" /\ worker_threads = {})
    /\ \A j \in Jobs : (status[j] = PROCESSING) ~> (status[j] \in {COMPLETED, FAILED})
    /\ [][\A j \in Jobs :
            (status[j] = PROCESSING /\ status'[j] # PROCESSING)
            => \E w \in Workers :
                /\ wjob[w] = j
                /\ wpc[w] = "update"
                /\ status'[j] = IF wsuccess[w] THEN COMPLETED ELSE FAILED]_vars

\* stop() is joining the workers while a decode that was in flight when
\* shutdown was requested has returned successfully.
C7_Witness ==
    /\ cpc = "join"
    /\ shutdown_requested
    /\ \E w \in Workers : wpc[w] = "update" /\ wsuccess[w]


\* C6: after stop() has returned, every job that was waiting in the queue
\* when shutdown was requested and that no worker claimed has left the
\* queue and is FAILED with error_message "shutting down"; none is QUEUED.
C6_ShutdownDrain ==
    Stopped =>
        \A j \in queued_at_stop :
            j \notin Range(claim_order)
                => /\ status[j] = FAILED
                   /\ error_message[j] = "shutting down"
                   /\ j \notin Range(job_queue)

\* C8: a decode that is still running more than job_timeout_ms_ after the
\* job's started_time returns as a failure with error_message "timeout".
C8_TimeoutAbandons ==
    [][\A w \in Workers :
        (/\ wpc[w] = "process"
         /\ wpc'[w] = "update"
         /\ clock - started_time[wjob[w]] > job_timeout_ms_)
        => /\ ~wsuccess'[w]
           /\ error_message'[wjob[w]] = "timeout"]_vars

\* C9: in every reachable state, the numbers get_stats reports satisfy
\* queue_size + active_workers + completed + failed = queued.
C9_StatsBalance ==
    get_stats.queue_size + get_stats.active_workers
        + get_stats.completed + get_stats.failed = get_stats.queued


\* C11: two workers that are inside process_job at the same time hold
\* different P25Decoder objects, each the one the map keeps for its own
\* thread; a decoder is created only on a thread's first call.
C11_OwnDecoder ==
    /\ \A v, w \in Workers :
        (v # w /\ wdecoder[v] # NoDecoder /\ wdecoder[w] # NoDecoder)
            => wdecoder[v] # wdecoder[w]
    /\ \A w \in Workers :
        wdecoder[w] # NoDecoder => wdecoder[w] = thread_decoders[ThreadKey(w)]
    /\ \A v, w \in Workers :
        (v # w /\ thread_decoders[v] # NoDecoder) => thread_decoders[v] # thread_decoders[w]

\* Both workers are decoding at once, the second on a decoder it created
\* in an earlier call.
C11_Witness ==
    /\ \A w \in Workers : wpc[w] = "process" /\ wdecoder[w] # NoDecoder
    /\ Len(claim_order) = MaxJobs

\* queue_job has returned the id of job j to its caller.
Returned(j) == j \in Admitted /\ \A s \in Submitters : sjob[s] # j

\* C12: distinct admitted jobs have distinct job ids; from the return of
\* queue_job until remove_completed_job is called for it, get_job_status
\* of a job's id gives that job; and an entry leaves the tracker by
\* remove_completed_job only.
C12_UniqueIds ==
    /\ [](\A i, j \in Admitted : i # j => job_id[i] # job_id[j])
    /\ [](\A j \in Jobs :
            (Returned(j) /\ j \notin removed) => get_job_status(job_id[j]) = j)
    /\ [][\A id \in JobIds :
            (job_tracker[id] # NoJob /\ job_tracker'[id] = NoJob)
                => job_tracker[id] \in removed']_vars

\* C13: of two admitted jobs, the one with the earlier received_time is
\* ahead in the queue and is claimed first.
C13_ArrivalOrder ==
    /\ \A a, b \in 1..Len(job_queue) :
        received_time[job_queue[a]] < received_time[job_queue[b]] => a < b
    /\ \A a, b \in 1..Len(claim_order) :
        received_time[claim_order[a]] < received_time[claim_order[b]] => a < b
    /\ \A a \in 1..Len(claim_order) : \A b \in 1..Len(job_queue) :
        received_time[claim_order[a]] <= received_time[job_queue[b]]

\* C14: the handler of POST /api/v1/decode produces its response without
\* running or waiting for the decode: no request has a response set by a
\* handler that has called decode_to_audio for it.
C14_HandlerOnlyEnqueues ==
    \A r \in Requests : hstatus[r] # NoResponse => ~hdecoded[r]

\* ------------------------------------------------------- claims: decoding
\* The number of units of the capture that are wholly in the file.
NumComplete ==
    LET fits == {n \in 0..Len(cap_units) :
                    Len(EncodeUnits(SubSeq(cap_units, 1, n))) <= Len(capture)}
    IN CHOOSE n \in fits : \A m \in fits : m <= n

\* The position in the file after the last frame read_frame yielded.
YieldedEnd ==
    IF yielded = <<>> THEN 0
    ELSE yielded[Len(yielded)].start + HeaderBytes + yielded[Len(yielded)].length

\* The file has lost part of the payload of a unit whose header is whole.
PayloadTruncated ==
    /\ NumComplete < Len(cap_units)
    /\ Len(capture) - Len(EncodeUnits(SubSeq(cap_units, 1, NumComplete)))
          >= HeaderBytes

\* The while loop of decode_to_audio has ended: read_frame returned false.
LoopEnded == dpc = "finish" \/ (dpc = "done" /\ feof)

\* The encryption context at frame n: the last LDU2 among the frames
\* yielded up to n (none: unencrypted).
LastLdu2(n) ==
    LET S == {m \in 1..n : yielded[m].duid = LDU2}
    IN IF S = {} THEN 0 ELSE CHOOSE m \in S : \A x \in S : x <= m

\* That LDU2 announced an algorithm other than 0x80 and its key is held.
Armed(n) ==
    /\ LastLdu2(n) # 0
    /\ yielded[LastLdu2(n)].algorithm_id # ALG_UNENCRYPTED
    /\ yielded[LastLdu2(n)].key_id \in d_keys

\* That LDU2 announced an algorithm other than 0x80 and its key is not held.
KeyMissing(n) ==
    /\ LastLdu2(n) # 0
    /\ yielded[LastLdu2(n)].algorithm_id # ALG_UNENCRYPTED
    /\ yielded[LastLdu2(n)].key_id \notin d_keys

\* C15: whenever decode_to_audio is between two frames or has returned,
\* the number of samples is a multiple of 160, every voice LDU has given
\* exactly 9 x 160 = 1440 samples, and the total is 1440 times the number
\* of voice frames, also when codewords were replaced by silence.
C15_SamplesPerLdu ==
    dpc \in {"read", "finish", "done"} =>
        /\ SampleCount(audio_buffer) % SAMPLES_PER_FRAME = 0
        /\ \A k \in 1..Len(contrib) :
            SampleCount(contrib[k].samples) = CodewordsPerLdu * SAMPLES_PER_FRAME
        /\ SampleCount(audio_buffer)
             = CodewordsPerLdu * SAMPLES_PER_FRAME * metadata.voice_frames

\* C16: when the vocoder throws at one codeword of a voice LDU, that
\* codeword gives 160 zero samples and the other eight are decoded; the
\* later units are decoded and decode_to_audio returns true.
C16_OneCodewordSilenced ==
    /\ \A k \in 1..Len(contrib) :
        contrib[k].samples =
            [i \in 1..CodewordsPerLdu |->
                [n |-> SAMPLES_PER_FRAME,
                 of |-> IF i = contrib[k].fault THEN Silence ELSE Codeword(k, i)]]
    /\ LoopEnded =>
        Len(contrib) = Cardinality({n \in 1..NumComplete :
                                        IsVoiceDuid(cap_units[n].duid)})
    /\ (dpc = "done" /\ feof) => dresult

\* C17: when the payload of a unit is cut short, the reading ends there
\* without an error: the frames yielded are exactly the whole units before
\* it, each of them counted and each voice unit among them decoded, and
\* decode_to_audio returns true.
C17_TruncatedEndsStream ==
    (PayloadTruncated /\ LoopEnded) =>
        /\ Len(yielded) = NumComplete
        /\ \A k \in 1..Len(yielded) :
            /\ yielded[k].duid = cap_units[k].duid
            /\ yielded[k].size = Len(cap_units[k].payload)
        /\ metadata.total_frames = NumComplete
        /\ metadata.voice_frames =
             Cardinality({n \in 1..NumComplete : IsVoiceDuid(cap_units[n].duid)})
        /\ Len(contrib) = metadata.voice_frames
        /\ \A k \in 1..Len(contrib) : contrib[k].samples # <<>>
        /\ dpc = "done" => dresult

\* A capture of three units, the last one an LDU cut short, has been
\* decoded to its end: two frames were yielded, one of them a voice frame.
C17_Witness ==
    /\ dpc = "done"
    /\ dresult
    /\ PayloadTruncated
    /\ Len(cap_units) = MaxUnits
    /\ NumComplete = MaxUnits - 1
    /\ IsVoiceDuid(cap_units[MaxUnits].duid)
    /\ Len(contrib) = 1

\* C18: read_frame goes through the file front to back: each frame it
\* yields starts where the one before ended, has duid = byte 0,
\* nac = byte1<<8 | byte2, length = byte3<<8 | byte4 and the `length` bytes
\* that follow as its data, and is a voice frame iff its duid is 0x05 or
\* 0x0A; it yields every unit that is wholly in the file, and with fewer
\* than 5 bytes left it reports the end of the stream.
C18_ReadFrame ==
    /\ [](\A k \in 1..Len(yielded) :
            LET y == yielded[k]
                b == y.start
            IN /\ b = IF k = 1 THEN 0
                      ELSE yielded[k-1].start + HeaderBytes + yielded[k-1].length
               /\ b + HeaderBytes + y.length <= Len(capture)
               /\ y.duid = capture[b + 1]
               /\ y.nac = capture[b + 2] * 256 + capture[b + 3]
               /\ y.length = capture[b + 4] * 256 + capture[b + 5]
               /\ y.size = y.length
               /\ y.is_voice_frame <=> (y.duid = 5 \/ y.duid = 10))
    /\ [](dpc = "body" =>
            frame.data = SubSeq(capture, YieldedEnd - frame.length + 1, YieldedEnd))
    /\ [](dpc = "finish" =>
            LET rem == Len(capture) - YieldedEnd
            IN \/ rem < HeaderBytes
               \/ rem < HeaderBytes + capture[YieldedEnd + 4] * 256
                                    + capture[YieldedEnd + 5])
    /\ [][(dpc = "read" /\ Len(capture) - YieldedEnd < HeaderBytes)
            => dpc' = "finish"]_vars

\* The reading has ended with one to four bytes left after three frames,
\* voice frames and others among them.
C18_Witness ==
    /\ dpc = "finish"
    /\ Len(yielded) = MaxUnits - 1
    /\ Len(capture) - YieldedEnd \in 1..(HeaderBytes - 1)
    /\ \E k \in 1..Len(yielded) : yielded[k].is_voice_frame
    /\ \E k \in 1..Len(yielded) : ~yielded[k].is_voice_frame

\* C19: a codeword of a voice LDU is XORed with the keystream exactly once
\* before the vocoder gets it if the last LDU2 announced an algorithm other
\* than 0x80 whose key is in the keyring, and not at all otherwise.
C19_DecryptWhenArmed ==
    \A k \in 1..Len(contrib) :
        \A i \in 1..Len(contrib[k].samples) :
            contrib[k].samples[i].of # Silence =>
                contrib[k].samples[i].of.xored
                    = IF Armed(contrib[k].frame_no) THEN 1 ELSE 0

\* C20: while the last LDU2 announced an algorithm other than 0x80 whose
\* key is not in the keyring, every codeword of a voice LDU gives 160 zero
\* samples; while the context is unencrypted a voice LDU is synthesized;
\* and the decode goes to the end of the capture and returns true.
C20_SilenceWhenKeyMissing ==
    /\ \A k \in 1..Len(contrib) :
        KeyMissing(contrib[k].frame_no) =>
            contrib[k].samples =
                [i \in 1..CodewordsPerLdu |->
                    [n |-> SAMPLES_PER_FRAME, of |-> Silence]]
    /\ \A k \in 1..Len(contrib) :
        (~KeyMissing(contrib[k].frame_no) /\ ~Armed(contrib[k].frame_no)
            /\ contrib[k].fault = 0) =>
            contrib[k].samples =
                [i \in 1..CodewordsPerLdu |->
                    [n |-> SAMPLES_PER_FRAME, of |-> Codeword(k, i)]]
    /\ (dpc = "done" /\ feof) => dresult

\* ---------------------------------------------------- claims: file errors
\* The capture of the job could not be opened, or its WAV file could not be
\* created.
FilesFailed(j) == j \in files_failed

\* C25: a job whose capture file cannot be opened or whose WAV file cannot
\* be created is never COMPLETED; once the worker has recorded the result
\* it is FAILED with an error_message, and the worker is back in its loop
\* for the next job.
C25_FileErrorsFail ==
    \A j \in Jobs :
        FilesFailed(j) =>
            /\ status[j] # COMPLETED
            /\ status[j] \in {PROCESSING, FAILED}
            /\ status[j] = FAILED => error_message[j] # ""

\* ------------------------------------------- claims: the message indicator
\* C21: when the decode loop has processed an LDU2, the message indicator
\* of the call's encryption context is the one decoded from that LDU2, and
\* a step that processes no LDU2 leaves the message indicator as it is.
C21_MiFollowsLdu2 ==
    [][/\ (dpc = "body" /\ dpc' = "read" /\ frame.duid = LDU2) =>
            current_mi' = MessageIndicator(frame.data)
       /\ ~(dpc = "body" /\ dpc' = "read" /\ frame.duid = LDU2) =>
            current_mi' = current_mi]_vars

\* ------------------------------------------------- claims: the WAV file
\* decode_to_audio has created the WAV file, gone through the loop and
\* closed the file.
Finalized == dpc = "done" /\ wav.size > 0

\* C27: when a decode finishes, the data chunk size written into the WAV
\* header is twice the number of samples decoded and the RIFF size is the
\* data chunk size plus 36; the file of a capture without a frame is the
\* 44-byte header with data size 0.
C27_WavSizes ==
    Finalized =>
        /\ ~wav.is_open
        /\ wav.data_size = 2 * SampleCount(audio_buffer)
        /\ wav.file_size = wav.data_size + 36
        /\ wav.size = 44 + wav.data_size
        /\ metadata.total_frames = 0 => (wav.size = 44 /\ wav.data_size = 0)

C27_Witness ==
    /\ Finalized
    /\ metadata.voice_frames = 2
    /\ wav.data_size = 2 * 2 * CodewordsPerLdu * SAMPLES_PER_FRAME

\* ------------------------------------------------- claims: the counters
\* C28: at the end of a decode total_frames and frame_count are the number
\* of units read whole from the capture, voice_frames is the number of
\* those whose DUID is 0x05 or 0x0A, and from the first frame on the NAC
\* recorded is the NAC of the first unit.
C28_Counters ==
    /\ LoopEnded =>
        /\ metadata.total_frames = NumComplete
        /\ frame_count = NumComplete
        /\ metadata.voice_frames =
             Cardinality({n \in 1..NumComplete : cap_units[n].duid \in {5, 10}})
    /\ (dpc \in {"read", "body", "finish", "done"} /\ metadata.total_frames >= 1) =>
            metadata.nac = cap_units[1].nac

C28_Witness ==
    /\ LoopEnded
    /\ NumComplete = MaxUnits
    /\ metadata.voice_frames = 2
    /\ cap_units[1].duid = LDU2
    /\ cap_units[2].duid = 0
    /\ cap_units[3].nac # cap_units[1].nac

\* --------------------------------------------- claims: the encrypted flag
\* The units read whole from the capture that are LDU2s carrying an
\* algorithm id other than 0x80.
EncryptedLdu2s ==
    {n \in 1..NumComplete :
        /\ cap_units[n].duid = LDU2
        /\ AlgorithmId(cap_units[n].payload) # 128}

RequestedComplete ==
    LET fits == {n \in 0..Len(requested.units) :
                    Len(EncodeUnits(SubSeq(requested.units, 1, n)))
                        <= Len(requested.bytes)}
    IN CHOOSE n \in fits : \A m \in fits : m <= n

\* C26: a decode gives the result of the capture it was asked to decode,
\* whatever the decoder decoded before: when the loop of decode_to_audio
\* has ended, the frames counted, the voice frames, the encrypted flag and
\* the samples are those of the file named in open_p25_file.
C26_FreshDecode ==
    (dpc = "finish" /\ requested.exists) =>
        /\ metadata.total_frames = RequestedComplete
        /\ frame_count = RequestedComplete
        /\ metadata.voice_frames =
             Cardinality({n \in 1..RequestedComplete :
                            requested.units[n].duid \in {5, 10}})
        /\ metadata.has_encrypted_frames <=>
             (\E n \in 1..RequestedComplete :
                /\ requested.units[n].duid = LDU2
                /\ AlgorithmId(requested.units[n].payload) # 128)
        /\ SampleCount(audio_buffer) =
             metadata.voice_frames * CodewordsPerLdu * SAMPLES_PER_FRAME

\* --------------------------------------- claims: keystream generators
\* C22: in every generator the codeword position is within 0..8, is 0
\* right after a prepare that succeeded, goes to (position + 1) mod 9 with
\* each decrypt of an 11-byte codeword, and is the number of codewords
\* decrypted since the prepare modulo 9: 0 again after nine of them.
C22_Position ==
    /\ [](gen.class \in GenClasses =>
            /\ gen.d_position \in 0..8
            /\ (gen.last.op = "prepare" /\ gen.last.ok /\ gen.last.ub # "abort") =>
                    gen.d_position = 0
            /\ gen.decrypts = 9 => gen.d_position = 0
            /\ gen.decrypts \in 0..8 => gen.d_position = gen.decrypts)
    /\ [][(gen.class \in GenClasses /\ gen'.last.op = "decrypt"
                /\ gen'.last.size >= 11 /\ gen'.last # gen.last) =>
            /\ gen.d_position < 8 => gen'.d_position = gen.d_position + 1
            /\ gen.d_position = 8 => gen'.d_position = 0]_vars

C22_Witness ==
    /\ gen.class \in GenClasses
    /\ gen.last.op = "decrypt"
    /\ gen.last.ok
    /\ gen.d_keystream # ZeroKeystream
    /\ gen.last.position = 8
    /\ gen.decrypts = 9
    /\ gen.d_position = 0

\* C23: prepare leaves the codeword position at 0 when it returns, for a
\* key that is held and for one that is not, whatever the position was.
C23_PrepareResets ==
    (gen.class \in GenClasses /\ gen.last.op = "prepare" /\ gen.last.ub # "abort") =>
        gen.d_position = 0

\* The (base_discard, intra_shift) of each algorithm.
OffsetConstants ==
    [DES |-> <<8, 11>>, AES |-> <<16, 16>>, ADP |-> <<0, 267>>]

\* C24: decrypt_codeword on a codeword of at least 11 bytes at position p
\* XORs byte j, for j in 0..10, with keystream byte base_discard +
\* (is_ldu2 ? 101 : 0) + p*11 + intra_shift + (p < 8 ? 0 : 2) + j, and no
\* other byte of the codeword.
C24_XorOffsets ==
    (gen.class \in GenClasses /\ gen.last.op = "decrypt" /\ gen.last.size >= 11) =>
        LET k == OffsetConstants[gen.class]
            p == gen.last.position
            start == k[1] + (IF gen.last.is_ldu2 THEN 101 ELSE 0) + p * 11
                        + k[2] + (IF p < 8 THEN 0 ELSE 2)
        IN /\ gen.last.ok
           /\ Len(gen.codeword) = gen.last.size
           /\ \A j \in 0..10 : gen.codeword[j + 1] = start + j
           /\ \A j \in 11..(gen.last.size - 1) : gen.codeword[j + 1] = NoXor

C24_Witness ==
    /\ gen.class = "DES"
    /\ gen.last.op = "decrypt"
    /\ gen.last.size = 12
    /\ gen.last.position = 8
    /\ gen.last.is_ldu2
    /\ gen.codeword[11] = 220
    /\ gen.codeword[12] = NoXor

\* C30: a key longer than the key array of the generator (8 bytes for
\* DES, 5 for ADP) is refused by add_key and builds no keystream; the
\* keystream of a shorter key is that of the key with zero bytes in front.
C30_KeyLength ==
    gen.class \in {"DES", "ADP"} =>
        LET n == KeyBytes(gen.class) IN
        /\ (gen.last.op = "add_key" /\ Len(gen.last.key) > n) => ~gen.last.ok
        /\ \A id \in DOMAIN gen.d_keys : Len(gen.d_keys[id]) <= n
        /\ (gen.last.op = "prepare" /\ gen.last.ok) =>
            /\ Len(gen.last.key) <= n
            /\ gen.d_keystream.key =
                 [i \in 1..(n - Len(gen.last.key)) |-> 0] \o gen.last.key

\* C31: a job's started_time is stamped in the step that takes it from the
\* queue and makes it PROCESSING, its completed_time in the step that makes
\* it COMPLETED or FAILED, and in no other step; so a job that is
\* PROCESSING, COMPLETED or FAILED has a started_time, a job that is
\* COMPLETED or FAILED has a completed_time, every admitted job has a
\* received_time, and received_time <= started_time <= completed_time.
Terminated(j) == status[j] \in {COMPLETED, FAILED}

C31_Timestamps ==
    /\ [](\A j \in Jobs :
            /\ status[j] # NoStatus => received_time[j] # 0
            /\ status[j] \in {PROCESSING, COMPLETED, FAILED} =>
                /\ started_time[j] # 0
                /\ received_time[j] <= started_time[j]
            /\ status[j] \in {NoStatus, QUEUED} => started_time[j] = 0
            /\ Terminated(j) =>
                /\ completed_time[j] # 0
                /\ started_time[j] <= completed_time[j]
            /\ ~Terminated(j) => completed_time[j] = 0)
    /\ [][\A j \in Jobs :
            /\ received_time'[j] # received_time[j] =>
                 status[j] = NoStatus /\ status'[j] = QUEUED /\ j = QueueBack(job_queue')
            /\ started_time'[j] # started_time[j] <=>
                 status[j] = QUEUED /\ status'[j] = PROCESSING
            /\ completed_time'[j] # completed_time[j] <=>
                 status[j] = PROCESSING /\ Terminated(j)']_vars

\* A completed job whose three stamps are three readings of the clock.
C31_Witness ==
    \E j \in Jobs :
        /\ status[j] = COMPLETED
        /\ 0 < received_time[j]
        /\ received_time[j] < started_time[j]
        /\ started_time[j] < completed_time[j]

JsonKeys(text) ==
    {text[i].key : i \in {k \in 1..Len(text) : text[k].t = "pair"}}

JsonMembers(text, key) ==
    SelectSeq(text, LAMBDA tok : tok.t = "pair" /\ tok.key = key)

\* The text is one JSON object: braces around members separated by commas.
IsJsonObject(text) ==
    /\ Len(text) >= 2
    /\ text[1].t = "{"
    /\ text[Len(text)].t = "}"
    /\ Len(text) > 2 => Len(text) % 2 = 1
    /\ \A i \in 2..(Len(text) - 1) :
            text[i].t = IF i % 2 = 0 THEN "pair" ELSE ","

\* C33: the sidecar of a COMPLETED job is one JSON object that has the
\* members decoder_source, p25_frames, voice_frames, nac and encrypted and
\* every key of the job's metadata_json.
C33_SidecarFields ==
    (pjob.pc = "done" /\ pjob.status = COMPLETED) =>
        /\ pjob.sidecar.exists
        /\ IsJsonObject(pjob.sidecar.text)
        /\ {"decoder_source", "p25_frames", "voice_frames", "nac", "encrypted"}
              \subseteq JsonKeys(pjob.sidecar.text)
        /\ JsonKeys(pjob.metadata_json) \subseteq JsonKeys(pjob.sidecar.text)

\* The external metadata a sidecar was written with: the job's
\* metadata_json, or the decoder's external_metadata_.
ExternalGiven ==
    IF pjob.pc = "direct" THEN pjob.external
    ELSE IF pjob.pc \in {"returned", "done"} THEN pjob.metadata_json
    ELSE EmptyText

\* C34: a key that the external metadata defines and the decoder writes
\* too is in the sidecar once, with the external value.
C34_ExternalWins ==
    (pjob.pc \in {"direct", "returned", "done"} /\ pjob.sidecar.exists) =>
        \A key \in JsonKeys(ExternalGiven) \cap
                   UNION {Range(DecoderFields(b)) : b \in {"existing", "external", "basic"}} :
            /\ Len(JsonMembers(pjob.sidecar.text, key)) = 1
            /\ JsonMembers(pjob.sidecar.text, key)[1].from = "external"

\* The Hamming(10,6,3) code of the P25 link signalling words: the parity
\* nibbles of the six data bits, the first data bit first, and the
\* codeword of the data bits d.
HammingRows == <<14, 13, 11, 7, 3, 12>>

BitOf(x, k) == (x \div (2 ^ k)) % 2

HammingParityBit(d, p) ==
    (  BitOf(d, 5) * BitOf(HammingRows[1], p)
     + BitOf(d, 4) * BitOf(HammingRows[2], p)
     + BitOf(d, 3) * BitOf(HammingRows[3], p)
     + BitOf(d, 2) * BitOf(HammingRows[4], p)
     + BitOf(d, 1) * BitOf(HammingRows[5], p)
     + BitOf(d, 0) * BitOf(HammingRows[6], p)) % 2

HammingCodeword(d) ==
    16 * d + 8 * HammingParityBit(d, 3) + 4 * HammingParityBit(d, 2)
           + 2 * HammingParityBit(d, 1) + HammingParityBit(d, 0)

HammingDistance(a, b) == Cardinality({k \in 0..9 : BitOf(a, k) # BitOf(b, k)})

\* C35: for every link signalling word of an LDU2 that is a codeword of
\* the Hamming(10,6,3) code, or one bit away from one, hamming_10_6_decode
\* gives the six data bits of that codeword, a value below 64.
C35_HammingCorrects ==
    (frame.duid = LDU2 /\ Len(frame.data) = LduBytes) =>
        \A i \in 0..23 : \A d \in 0..63 :
            HammingDistance(LsCodeword(frame.data, i, 0, 0), HammingCodeword(d)) <= 1
                => /\ HexBit(frame.data, i) = d
                   /\ HexBit(frame.data, i) < 64

\* RC4 as it is defined: the key schedule over the key repeated to 256
\* bytes, then n bytes of output, none discarded.  A round of either is a
\* function of the state [S, i, j], the permutation S being a sequence with
\* S[x] at index x + 1; RC4Rounds makes rounds lo..hi of it.
RC4ScheduleRound(key, st) ==
    LET j == (st.j + st.S[st.i + 1] + key[(st.i % Len(key)) + 1]) % 256
    IN [S |-> [st.S EXCEPT ![st.i + 1] = st.S[j + 1], ![j + 1] = st.S[st.i + 1]],
        i |-> st.i + 1, j |-> j, out |-> st.out]

RC4OutputRound(key, st) ==
    LET i == (st.i + 1) % 256
        j == (st.j + st.S[i + 1]) % 256
        S == [st.S EXCEPT ![i + 1] = st.S[j + 1], ![j + 1] = st.S[i + 1]]
    IN [S |-> S, i |-> i, j |-> j,
        out |-> st.out \o <<S[((S[i + 1] + S[j + 1]) % 256) + 1]>>]

RECURSIVE RC4Rounds(_, _, _, _, _)
RC4Rounds(Round(_, _), key, st, lo, hi) ==
    IF lo > hi THEN st
    ELSE IF lo = hi THEN Round(key, st)
    ELSE LET mid == (lo + hi) \div 2
             done == RC4Rounds(Round, key, st, lo, mid)
         IN IF done.j \in 0..255 THEN RC4Rounds(Round, key, done, mid + 1, hi)
            ELSE done

RC4(key, n) ==
    LET scheduled == RC4Rounds(RC4ScheduleRound, key,
                        [S |-> SubSeq([x \in 1..256 |-> x - 1], 1, 256),
                         i |-> 0, j |-> 0, out |-> <<>>], 1, 256)
    IN RC4Rounds(RC4OutputRound, key,
                 [scheduled EXCEPT !.i = 0, !.j = 0], 1, n).out

\* A prepare of the ADP generator has just returned true, for a key that
\* fits the five-byte key array.
AdpPrepared ==
    /\ gen.class = "ADP"
    /\ gen.last.op = "prepare"
    /\ gen.last.ok
    /\ Len(gen.last.key) <= AdpKeyBytes

\* C36: after prepare(key_id, mi) on the ADP generator the keystream is
\* the first 469 bytes of RC4 keyed with the five key bytes followed by
\* mi[0..7]; it depends on the stored key and the MI only, so a second
\* prepare with the same key_id and MI leaves the same keystream.
C36_AdpKeystream ==
    /\ [](AdpPrepared =>
            /\ gen.d_keystream.key = PadKey(gen.last.key, AdpKeyBytes)
            /\ Len(generate_keystream(gen.d_keystream.key, gen.d_keystream.mi))
                 = AdpKeystreamBytes
            /\ generate_keystream(gen.d_keystream.key, gen.d_keystream.mi)
                 = RC4(gen.d_keystream.key \o SubSeq(gen.d_keystream.mi, 1, 8),
                       AdpKeystreamBytes))
    /\ [][(AdpPrepared /\ AdpPrepared'
            /\ gen'.last.keyid = gen.last.keyid
            /\ gen'.d_keys = gen.d_keys
            /\ gen'.d_keystream.mi = gen.d_keystream.mi)
          => gen'.d_keystream = gen.d_keystream]_vars

\* The ADP generator prepared with the five-byte key 1 2 3 4 5 and an MI
\* that is not zero.
C36_Witness ==
    /\ AdpPrepared
    /\ gen.d_keystream.key = <<1, 2, 3, 4, 5>>
    /\ gen.d_keystream.mi # ZeroMi

\* ---------------------------------------------------------------- C37
\* How many entries of job_queue_ are job j.
TimesQueued(j) == Cardinality({n \in 1..Len(job_queue) : job_queue[n] = j})

\* C37: an admitted job is in job_queue_ exactly when its status is QUEUED
\* (and then once), and the step that takes a job out of the queue is the
\* step that makes it PROCESSING: no step leaves a job queued with a later
\* status, or QUEUED outside the queue.
C37_QueuedIffInQueue ==
    /\ [](\A j \in Jobs :
            /\ TimesQueued(j) = (IF status[j] = QUEUED THEN 1 ELSE 0)
            /\ TimesQueued(j) = 1 => j \in Admitted)
    /\ [][\A j \in Jobs :
            /\ (TimesQueued(j) = 1 /\ TimesQueued(j)' = 0)
                  <=> (status[j] = QUEUED /\ status'[j] = PROCESSING)
            /\ (status[j] = QUEUED /\ status'[j] # QUEUED)
                  => status'[j] = PROCESSING]_vars

\* One job has been claimed and is PROCESSING while a later one is QUEUED
\* and still in the queue.
C37_Witness ==
    \E j, k \in Admitted :
        /\ status[j] = PROCESSING /\ TimesQueued(j) = 0
        /\ status[k] = QUEUED /\ TimesQueued(k) = 1
        /\ \E w \in Workers : wjob[w] = j

\* ---------------------------------------------------------------- C38
\* C38: in the DES and the ADP generator, for every codeword position
\* 0..8 and both values of is_ldu2, the eleven keystream indexes
\* offset..offset+10 are below the keystream length (224, 469): a decrypt
\* of a codeword of 11 bytes or more finds the position within 0..8 and
\* XORs each of the first 11 bytes, the guard skipping none; a codeword
\* of fewer than 11 bytes is refused, with no byte changed and the
\* position left as it was.
C38_IndexesInBounds ==
    /\ [](gen.class \in {"DES", "ADP"} =>
            /\ \A position \in 0..8, is_ldu2 \in BOOLEAN :
                 LET offset == KeystreamOffset(gen.class, position, is_ldu2)
                 IN offset >= 0 /\ offset + 10 < KeystreamBytes(gen.class)
            /\ gen.d_position \in 0..8
            /\ (gen.last.op = "decrypt" /\ gen.last.size >= 11) =>
                 /\ gen.last.ok
                 /\ gen.last.position \in 0..8
                 /\ \A j \in 1..11 :
                      /\ gen.codeword[j] # NoXor
                      /\ gen.codeword[j] \in 0..(KeystreamBytes(gen.class) - 1)
            /\ (gen.last.op = "decrypt" /\ gen.last.size < 11) =>
                 /\ ~gen.last.ok
                 /\ gen.d_position = gen.last.position
                 /\ Len(gen.codeword) = gen.last.size
                 /\ \A j \in 1..gen.last.size : gen.codeword[j] = NoXor)
    /\ [][(gen.class \in {"DES", "ADP"} /\ gen'.last.op = "decrypt"
                /\ gen'.last.size < 11) =>
            gen'.d_position = gen.d_position]_vars

\* The last keystream byte is used: the ADP generator has decrypted the
\* ninth codeword of an LDU2, byte 10 with d_keystream[468].
C38_Witness ==
    /\ gen.class = "ADP"
    /\ gen.last.op = "decrypt"
    /\ gen.last.ok
    /\ gen.last.is_ldu2
    /\ gen.last.position = 8
    /\ gen.last.size = 11
    /\ gen.codeword[11] = AdpKeystreamBytes - 1

\* A short codeword has been refused halfway through a superframe.
C38_ShortRefused ==
    /\ gen.class = "DES"
    /\ gen.last.op = "decrypt"
    /\ ~gen.last.ok
    /\ gen.last.size = 10
    /\ gen.d_position = 4

\* ------------------------------------------------------- input plugins
\* P25_TSBK_UDP_Input and API_Input (src/plugins): a control thread calls
\* init, start and stop, the plugin's own thread runs receiver_worker or
\* server_worker, and a consumer thread calls get_data.
PluginKinds == {"udp", "api"}

\* P25_TSBK_Data(), the value get_data returns when it has no packet.
EmptyData == "empty"

\* What recvfrom (accept) returns: an error, a datagram that does not
\* parse, or a P25C packet.
TsbkPackets == {"tsbk1", "tsbk2"}
PluginInputs == {"error", "invalid"} \cup TsbkPackets

\* The constructor and init(): running_(false), the queue empty, the socket
\* bound, PLUGIN_INITIALIZED.
PluginInit(kind) ==
    /\ plugin.state = "none"
    /\ plugin' = [NoPlugin EXCEPT !.state = "PLUGIN_INITIALIZED", !.kind = kind]
    /\ UNCHANGED <<managerVars, httpVars, decVars, gen, pjob>>

\* start(): refused unless PLUGIN_INITIALIZED; running_ = true, the thread
\* is created, PLUGIN_RUNNING.
PluginStart ==
    /\ plugin.state = "PLUGIN_INITIALIZED"
    /\ plugin.stop_pc = "idle"
    /\ plugin' = [plugin EXCEPT !.running_ = TRUE, !.thread = "loop",
                                !.state = "PLUGIN_RUNNING"]
    /\ UNCHANGED <<managerVars, httpVars, decVars, gen, pjob>>

\* stop(), first lines: if (running_) running_ = false, an atomic store
\* outside queue_mutex_; then the thread is joined.  queue_cv_ is not
\* notified.
PluginStopBegin ==
    /\ plugin.state # "none"
    /\ plugin.stop_pc = "idle"
    /\ plugin.running_
    /\ plugin' = [plugin EXCEPT !.running_ = FALSE, !.stop_pc = "join",
                                !.stop_called = TRUE]
    /\ UNCHANGED <<managerVars, httpVars, decVars, gen, pjob>>

\* stop(), after join() has returned: the socket is closed, PLUGIN_STOPPED.
PluginStopJoin ==
    /\ plugin.stop_pc = "join"
    /\ plugin.thread = "exited"
    /\ plugin' = [plugin EXCEPT !.thread = "joined", !.stop_pc = "idle",
                                !.state = "PLUGIN_STOPPED"]
    /\ UNCHANGED <<managerVars, httpVars, decVars, gen, pjob>>

\* receiver_worker / server_worker: while (running_).
PluginThreadLoop ==
    /\ plugin.thread = "loop"
    /\ plugin' = [plugin EXCEPT
                    !.thread = IF plugin.running_ THEN "recv" ELSE "exited"]
    /\ UNCHANGED <<managerVars, httpVars, decVars, gen, pjob>>

\* recvfrom returns in receiver_worker: an error or a datagram that does
\* not parse goes back to the loop, a P25C packet goes on to the queue.
\* accept returns in server_worker: the request is handled and answered,
\* nothing is queued.  running_ is not looked at before the packet is
\* queued.
PluginThreadReceive(input) ==
    /\ plugin.thread = "recv"
    /\ plugin.packets < MaxPackets
    /\ plugin' = [plugin EXCEPT
                    !.packets = @ + 1,
                    !.pending = IF plugin.kind = "udp" /\ input \in TsbkPackets
                                THEN input ELSE "none",
                    !.thread = IF plugin.kind = "udp" /\ input \in TsbkPackets
                               THEN "push" ELSE "loop"]
    /\ UNCHANGED <<managerVars, httpVars, decVars, gen, pjob>>

\* receiver_worker, under queue_mutex_: a full queue drops the packet
\* (continue), otherwise data_queue_.push(tsbk_data).
PluginThreadPush ==
    /\ plugin.thread = "push"
    /\ plugin' = IF Len(plugin.data_queue_) >= MaxPluginQueue
                 THEN [plugin EXCEPT !.thread = "loop", !.pending = "none"]
                 ELSE [plugin EXCEPT
                         !.data_queue_ = Append(@, plugin.pending),
                         !.thread = "notify", !.pending = "none"]
    /\ UNCHANGED <<managerVars, httpVars, decVars, gen, pjob>>

\* receiver_worker: queue_cv_.notify_one() wakes the consumer if it waits.
PluginThreadNotify ==
    /\ plugin.thread = "notify"
    /\ plugin' = [plugin EXCEPT
                    !.thread = "loop",
                    !.get_pc = IF @ = "blocked" THEN "wait" ELSE @]
    /\ UNCHANGED <<managerVars, httpVars, decVars, gen, pjob>>

\* get_data() is called: the consumer takes queue_mutex_.
GetData ==
    /\ plugin.state # "none"
    /\ plugin.get_pc = "idle"
    /\ plugin' = [plugin EXCEPT !.get_pc = "wait", !.got = "none"]
    /\ UNCHANGED <<managerVars, httpVars, decVars, gen, pjob>>

\* get_data(), under queue_mutex_: queue_cv_.wait(lock, pred) blocks while
\* the queue is empty and running_ is true; otherwise the front packet is
\* popped and returned, or P25_TSBK_Data() with an empty queue.
GetDataWait ==
    /\ plugin.get_pc = "wait"
    /\ plugin' =
         IF ~(plugin.data_queue_ # <<>> \/ ~plugin.running_)
         THEN [plugin EXCEPT !.get_pc = "blocked"]
         ELSE IF plugin.data_queue_ # <<>>
         THEN [plugin EXCEPT !.get_pc = "idle",
                             !.got = Head(plugin.data_queue_),
                             !.data_queue_ = Tail(@)]
         ELSE [plugin EXCEPT !.get_pc = "idle", !.got = EmptyData]
    /\ UNCHANGED <<managerVars, httpVars, decVars, gen, pjob>>

\* A wait on a condition variable may return without a notification; the
\* predicate is then evaluated again.
GetDataSpuriousWakeup ==
    /\ plugin.get_pc = "blocked"
    /\ plugin' = [plugin EXCEPT !.get_pc = "wait"]
    /\ UNCHANGED <<managerVars, httpVars, decVars, gen, pjob>>

PluginNext ==
    \/ \E kind \in PluginKinds : PluginInit(kind)
    \/ PluginStart
    \/ PluginStopBegin
    \/ PluginStopJoin
    \/ PluginThreadLoop
    \/ \E input \in PluginInputs : PluginThreadReceive(input)
    \/ PluginThreadPush
    \/ PluginThreadNotify
    \/ GetData
    \/ GetDataWait
    \/ GetDataSpuriousWakeup

PluginSpec == Init /\ [][PluginNext]_vars

\* The threads are scheduled: a step of stop(), of the plugin's thread or of
\* get_data that stays possible is taken, and a receiver that waits for a
\* datagram is sent one while datagrams remain.  A wait is not promised a
\* spurious wakeup, and nobody is obliged to call start, stop or get_data.
PluginFairSpec ==
    /\ PluginSpec
    /\ WF_vars(PluginStopJoin)
    /\ WF_vars(PluginThreadLoop)
    /\ WF_vars(\E input \in PluginInputs : PluginThreadReceive(input))
    /\ WF_vars(PluginThreadPush)
    /\ WF_vars(PluginThreadNotify)
    /\ WF_vars(GetDataWait)

\* ---------------------------------------------------------------- C39
\* The consumer waits inside get_data on an empty queue and stop() has
\* cleared running_.
BlockedAfterStop ==
    /\ plugin.get_pc = "blocked"
    /\ plugin.data_queue_ = <<>>
    /\ plugin.stop_called
    /\ ~plugin.running_

\* C39: a consumer blocked in get_data() on an empty queue returns once
\* stop() has been called on the plugin; it does not stay blocked for ever.
C39_StopReleasesConsumer == BlockedAfterStop ~> (plugin.get_pc = "idle")

\* When get_data does return P25_TSBK_Data(), the plugin is not running and
\* the queue is empty.
EmptyOnlyWhenStopped ==
    [][(plugin.get_pc = "wait" /\ plugin'.get_pc = "idle"
            /\ plugin'.got = EmptyData) =>
         (~plugin.running_ /\ plugin.data_queue_ = <<>>)]_vars

=============================================================================
